---------------------------- MODULE Spec2Model ----------------------------
(***************************************************************************)
(* A model of the dynamic-schema storage engine and the RBAC evaluator of  *)
(* sukryu/pAuth.                                                           *)
(*                                                                         *)
(* The physical database is the variable db (one entry per table name),    *)
(* the entity_schemas registry is the variable registry.  Go strings that  *)
(* the code inspects character by character (column definitions of         *)
(* GetTableSchema) are sequences of one-character strings.                 *)
(***************************************************************************)
EXTENDS Integers, Sequences, FiniteSets, TLC

VARIABLES
    db,          \* physical tables: name -> [exists, cols, rows]
    registry,    \* names held by the entity_schemas registry
    pc,          \* position of the running DropColumn call ("idle" when none)
    dc,          \* frame of the DropColumn call: arguments, newColumns, offset
    ret,         \* what the last finished operation returned
    pre,         \* the database as it was when DropColumn was called
    now,         \* the engine's clock (CURRENT_TIMESTAMP)
    res,         \* the rows the last operation returned, when it was a read
    deleted,     \* the ids whose delete succeeded and that were not inserted since
    roles,       \* the store's roles: name -> [exists, rules]
    roleBindings,\* the store's role bindings: name -> [exists, roleRef, subjects]
    storeFault,  \* the store reads that fail for now
    access,      \* the last CheckAccess call and what it returned
    schemaVersions, \* the rows of schema_versions, in insertion (id) order
    versionCache,   \* the version cache: schema name -> entry
    cacheClock,  \* the process clock the version cache reads
    listed,      \* what the last GetSchemaVersions returned
    tracked,     \* schema name -> number of TrackSchemaVersion calls that succeeded
    trackers,    \* the concurrent TrackSchemaVersion calls: caller -> frame
    writer,      \* the connection holding the database write lock ("none" when free)
    managers,    \* storeFactory.managers: DSN -> manager instance (0 when absent)
    mu,          \* storeFactory.mu: [readers, writer]
    callers,     \* the concurrent getManager / Close calls: caller -> frame
    made,        \* DSN -> the manager instances created so far
    params,      \* the QueryParams object a caller builds queries from
    built,       \* what the builds on params returned: first and last clause and Args
    calls,       \* the concurrent calls of the RBAC layer: caller -> frame
    errs,        \* the package-level error values: kind -> Reason
    conn         \* the connections of the pool: connection -> query_only

vars == <<db, registry, pc, dc, ret, pre, now, res, deleted,
          roles, roleBindings, storeFault, access,
          schemaVersions, versionCache, cacheClock, listed, tracked,
          trackers, writer, managers, mu, callers, made, params, built,
          calls, errs, conn>>

crudVars == <<now, res, deleted>>
rbacVars == <<roles, roleBindings, storeFault, access>>
verVars == <<schemaVersions, versionCache, cacheClock, listed, tracked,
            trackers, writer>>
facVars == <<managers, mu, callers, made>>
qbVars == <<params, built>>
extVars == <<calls, errs, conn>>

(***************************************************************************)
(* Bounds of the model.                                                    *)
(***************************************************************************)
MaxRows == 3
MaxBatch == 3

NULL == 0 - 1

(***************************************************************************)
(* Strings.                                                                *)
(***************************************************************************)
SP == " "

c_id == <<"i", "d">>
c_created_at == <<"c", "r", "e", "a", "t", "e", "d", "_", "a", "t">>
c_updated_at == <<"u", "p", "d", "a", "t", "e", "d", "_", "a", "t">>
c_deleted_at == <<"d", "e", "l", "e", "t", "e", "d", "_", "a", "t">>
c_a == <<"a">>
c_ab == <<"a", "b">>
c_zz == <<"z", "z">>

TEXT == <<"T", "E", "X", "T">>
TIMESTAMP == <<"T", "I", "M", "E", "S", "T", "A", "M", "P">>
INTEGER == <<"I", "N", "T", "E", "G", "E", "R">>

Min(a, b) == IF a < b THEN a ELSE b

\* strings.HasPrefix(s, p)
HasPrefix(s, p) == Len(p) <= Len(s) /\ SubSeq(s, 1, Len(p)) = p

\* index of the first separator of s, Len(s) + 1 when there is none
RECURSIVE FirstSpace(_, _)
FirstSpace(s, i) ==
    IF i > Len(s) THEN i
    ELSE IF s[i] = SP THEN i ELSE FirstSpace(s, i + 1)

\* strings.Split(col, " ")[0]
SplitHead(s) == SubSeq(s, 1, FirstSpace(s, 1) - 1)

\* what follows the first separator: the declared type of a column definition
SplitTail(s) == SubSeq(s, FirstSpace(s, 1) + 1, Len(s))

\* getColumnNames: the names of a list of "<name> <type>" strings
getColumnNames(columns) == [i \in 1..Len(columns) |-> SplitHead(columns[i])]

\* tableName + "_temp"
TempName(t) ==
    CASE t = "t" -> "t_temp"
      [] t = "u" -> "u_temp"
      [] OTHER -> "x_temp"

TableNames ==
    {"t", "t_temp", "u", "u_temp", "x_temp", "users", "roles", "role_bindings",
     "_t"}

NoTable == [exists |-> FALSE, cols |-> <<>>, rows |-> <<>>]

(***************************************************************************)
(* The database engine: the statements the store sends.                    *)
(***************************************************************************)
ColNames(tbl) == {tbl.cols[i].name : i \in 1..Len(tbl.cols)}

\* PRAGMA table_info(t) rendered as "<name> <type>"; no rows for a missing table
GetTableSchema(t) ==
    [i \in 1..Len(db[t].cols) |-> db[t].cols[i].name \o <<SP>> \o db[t].cols[i].type]

\* CREATE TABLE x (<defs>): each definition is parsed back into name and type
ParseColumns(defs) ==
    [i \in 1..Len(defs) |-> [name |-> SplitHead(defs[i]), type |-> SplitTail(defs[i])]]

\* SELECT ... LIMIT l OFFSET o over the rows in scan order; a negative LIMIT is
\* no limit and a negative OFFSET is 0
SqlLimitOffset(rows, l, o) ==
    LET off == IF o < 0 THEN 0 ELSE o
        avail == IF Len(rows) > off THEN Len(rows) - off ELSE 0
        n == IF l < 0 THEN avail ELSE Min(l, avail)
    IN SubSeq(rows, off + 1, off + n)

\* SELECT <names> of one row
Project(row, names) == [c \in {names[i] : i \in 1..Len(names)} |-> row[c]]

ProjectAll(rows, names) == [i \in 1..Len(rows) |-> Project(rows[i], names)]

(***************************************************************************)
(* DropColumn, step 2: the loop over the schema.                           *)
(***************************************************************************)
\* the match without the separator: "a" also matches "ab TEXT"
ColumnMatchesLoose(col, columnName) == HasPrefix(col, columnName)

\* strings.HasPrefix(col, columnName+" ")
ColumnMatches(col, columnName) == HasPrefix(col, columnName \o <<SP>>)

RECURSIVE NewColumns(_, _, _)
NewColumns(columns, columnName, i) ==
    IF i > Len(columns) THEN <<>>
    ELSE IF ColumnMatches(columns[i], columnName)
         THEN NewColumns(columns, columnName, i + 1)
         ELSE <<columns[i]>> \o NewColumns(columns, columnName, i + 1)

\* columnExists set on every turn of the loop, whatever the entry
ColumnExistsAnyEntry(columns, columnName) == Len(columns) > 0

\* columnExists: set when an entry of the schema matches
ColumnExists(columns, columnName) ==
    \E i \in 1..Len(columns) : ColumnMatches(columns[i], columnName)

IdleFrame ==
    [table |-> "t", column |-> c_zz, batch |-> 1, newColumns |-> <<>>, offset |-> 0,
     fault |-> "none", retry |-> FALSE, called |-> FALSE, log |-> <<>>]

(***************************************************************************)
(* DropColumn(ctx, tableName, columnName, batchSize), statement by          *)
(* statement.  Every statement sent to the database may fail; a failed     *)
(* statement changes nothing (statement atomicity of the engine).  The     *)
(* frame records, beside the locals of the call, the statements it issued  *)
(* (log) and the statement a failure was injected into (fault).            *)
(***************************************************************************)
BatchSizes == (0 - 1)..MaxBatch
DropTargets == {c_a, c_ab, c_zz}
CopyCap == 2 * MaxRows

Ret(o, v) == [op |-> o, val |-> v]

Return(r) == /\ pc' = "idle"
             /\ ret' = Ret("DropColumn", r)

\* the frame once the call has returned: its arguments stay for the next call to
\* compare with, its locals are dead
Dead(frame) == [frame EXCEPT !.newColumns = <<>>, !.offset = 0]

Issued(frame, stmt) == [frame EXCEPT !.log = Append(@, stmt)]

Faulted(frame, stmt) == [frame EXCEPT !.fault = stmt]

\* offset += batchSize
NextOffsetSkipping(offset, batchSize) == offset + batchSize + 1

NextOffset(offset, batchSize) == offset + batchSize

\* steps 1 and 2: read the schema, look for the column
DropColumnCall(t, c, b) ==
    /\ pc = "idle"
    /\ pre' = db
    /\ LET columns == GetTableSchema(t)
           again == /\ ret = Ret("DropColumn", "copy_failed")
                       \/ ret = Ret("DropColumn", "rows_affected_failed")
                    /\ dc.called /\ dc.table = t /\ dc.column = c /\ dc.batch = b
           frame == [table |-> t, column |-> c, batch |-> b,
                     newColumns |-> NewColumns(columns, c, 1), offset |-> 0,
                     fault |-> "none", retry |-> again, called |-> TRUE, log |-> <<>>]
       IN \/ /\ Return("schema_failed")
             /\ dc' = Dead(Faulted(frame, "SCHEMA"))
          \/ IF ColumnExists(columns, c)
             THEN pc' = "create" /\ ret' = Ret("DropColumn", "pending") /\ dc' = frame
             ELSE Return("not_found") /\ dc' = Dead(frame)
    /\ UNCHANGED <<db, registry, crudVars, rbacVars, verVars, facVars, qbVars, extVars>>

\* step 4: CREATE TABLE <t>_temp (<newColumns>)
CreateTemp ==
    /\ pc = "create"
    /\ LET temp == TempName(dc.table)
           frame == Issued(dc, "CREATE")
       IN \/ /\ Return("create_temp_failed")
             /\ dc' = Dead(Faulted(frame, "CREATE"))
             /\ UNCHANGED db
          \/ /\ db[temp].exists
             /\ Return("create_temp_failed")
             /\ dc' = Dead(frame)
             /\ UNCHANGED db
          \/ /\ ~db[temp].exists
             /\ db' = [db EXCEPT ![temp] = [exists |-> TRUE,
                                            cols |-> ParseColumns(dc.newColumns),
                                            rows |-> <<>>]]
             /\ pc' = "copy"
             /\ dc' = frame
             /\ UNCHANGED ret
    /\ UNCHANGED <<registry, pre, crudVars, rbacVars, verVars, facVars, qbVars, extVars>>

\* an error of the copy loop is swallowed and the call goes on to the swap
CopyFailedSwallowed(frame, stmt, r) ==
    /\ pc' = "drop"
    /\ dc' = Faulted(frame, stmt)
    /\ UNCHANGED ret

\* "failed to copy data in batches" / "failed to get rows affected": return
CopyFailed(frame, stmt, r) ==
    /\ Return(r)
    /\ dc' = Dead(Faulted(frame, stmt))

\* the loop ends on a batch of one row already
LoopBreaksEarly(rowsAffected) == rowsAffected <= 1

\* if rowsAffected == 0 { break }
LoopBreaks(rowsAffected) == rowsAffected = 0

\* step 5, one turn of the loop:
\* INSERT INTO <t>_temp SELECT <names> FROM <t> LIMIT batchSize OFFSET offset
CopyBatch ==
    /\ pc = "copy"
    /\ LET temp == TempName(dc.table)
           batch == ProjectAll(SqlLimitOffset(db[dc.table].rows, dc.batch, dc.offset),
                               getColumnNames(dc.newColumns))
           frame == Issued(dc, "COPY")
       IN \/ /\ CopyFailed(frame, "COPY", "copy_failed")
             /\ UNCHANGED db
          \/ /\ Len(db[temp].rows) + Len(batch) <= CopyCap
             /\ db' = [db EXCEPT ![temp].rows = @ \o batch]
             /\ \/ CopyFailed(frame, "ROWS_AFFECTED", "rows_affected_failed")
                \/ /\ LoopBreaks(Len(batch))
                   /\ pc' = "drop"
                   /\ dc' = frame
                   /\ UNCHANGED ret
                \/ /\ ~LoopBreaks(Len(batch))
                   /\ dc' = [frame EXCEPT !.offset = NextOffset(@, dc.batch)]
                   /\ UNCHANGED <<pc, ret>>
    /\ UNCHANGED <<registry, pre, crudVars, rbacVars, verVars, facVars, qbVars, extVars>>

\* step 6a: DROP TABLE IF EXISTS <t>
DropSource ==
    /\ pc = "drop"
    /\ LET frame == Issued(dc, "DROP")
       IN \/ /\ Return("drop_failed")
             /\ dc' = Dead(Faulted(frame, "DROP"))
             /\ UNCHANGED db
          \/ /\ db' = [db EXCEPT ![dc.table] = NoTable]
             /\ pc' = "rename"
             /\ dc' = frame
             /\ UNCHANGED ret
    /\ UNCHANGED <<registry, pre, crudVars, rbacVars, verVars, facVars, qbVars, extVars>>

\* step 6b: ALTER TABLE <t>_temp RENAME TO <t>
RenameTemp ==
    /\ pc = "rename"
    /\ LET temp == TempName(dc.table)
           frame == Issued(dc, "RENAME")
       IN \/ /\ Return("rename_failed")
             /\ dc' = Dead(Faulted(frame, "RENAME"))
             /\ UNCHANGED db
          \/ /\ db' = [db EXCEPT ![dc.table] = db[temp], ![temp] = NoTable]
             /\ Return("ok")
             /\ dc' = Dead(frame)
    /\ UNCHANGED <<registry, pre, crudVars, rbacVars, verVars, facVars, qbVars, extVars>>

\* AddColumn: ALTER TABLE <t> ADD COLUMN <columnDef>; the rows read NULL in it
AddColumn(t, columnDef) ==
    /\ pc = "idle"
    /\ LET col == [name |-> SplitHead(columnDef), type |-> SplitTail(columnDef)]
       IN IF db[t].exists /\ col.name \notin ColNames(db[t])
          THEN /\ db' = [db EXCEPT ![t].cols = Append(@, col),
                                   ![t].rows = [i \in 1..Len(@) |->
                                                   @[i] @@ (col.name :> NULL)]]
               /\ ret' = Ret("AddColumn", "ok")
          ELSE /\ ret' = Ret("AddColumn", "failed")
               /\ UNCHANGED db
    /\ dc' = IdleFrame
    /\ pre' = db
    /\ UNCHANGED <<registry, pc, crudVars, rbacVars, verVars, facVars, qbVars, extVars>>

\* the variables of the row operations and of the RBAC store, unused
NoRes == [key |-> 0, rows |-> <<>>]

CrudIdle == now = 0 /\ res = NoRes /\ deleted = {}

RbacIdle ==
    /\ roles = [r \in {} |-> 0]
    /\ roleBindings = [b \in {} |-> 0]
    /\ storeFault = {}
    /\ access = [called |-> FALSE]

VerIdle ==
    /\ schemaVersions = <<>>
    /\ versionCache = [s \in {} |-> 0]
    /\ cacheClock = 0
    /\ listed = <<>>
    /\ tracked = [s \in {} |-> 0]
    /\ trackers = [p \in {} |-> 0]
    /\ writer = "none"

ExtIdle ==
    /\ calls = [p \in {} |-> 0]
    /\ errs = [k \in {} |-> ""]
    /\ conn = [c \in {} |-> FALSE]

FacIdle ==
    /\ managers = [d \in {} |-> 0]
    /\ mu = [readers |-> {}, writer |-> "none"]
    /\ callers = [p \in {} |-> 0]
    /\ made = [d \in {} |-> {}]
    /\ params = <<>>
    /\ built = <<>>

(***************************************************************************)
(* The column-drop specification: a table t of 0..MaxRows rows.            *)
(***************************************************************************)
CoreCols ==
    << [name |-> c_id, type |-> TEXT],
       [name |-> c_created_at, type |-> TIMESTAMP],
       [name |-> c_updated_at, type |-> TIMESTAMP],
       [name |-> c_deleted_at, type |-> TIMESTAMP] >>

CoreNames == {c_id, c_created_at, c_updated_at, c_deleted_at}

DropCols == CoreCols \o << [name |-> c_a, type |-> INTEGER], [name |-> c_ab, type |-> TEXT] >>

DropRow(i, d) ==
    (c_id :> i) @@ (c_created_at :> 0) @@ (c_updated_at :> 0)
        @@ (c_deleted_at :> IF i = 1 THEN d ELSE NULL)
        @@ (c_a :> 20 + i) @@ (c_ab :> 10 + i)

InitDrop ==
    /\ \E n \in 0..MaxRows, d \in {NULL, 1} :
          db = [x \in TableNames |->
                  IF x = "t"
                  THEN [exists |-> TRUE, cols |-> DropCols,
                        rows |-> [i \in 1..n |-> DropRow(i, d)]]
                  ELSE NoTable]
    /\ registry = {"t"}
    /\ pc = "idle"
    /\ dc = IdleFrame
    /\ ret = Ret("none", "none")
    /\ pre = db
    /\ CrudIdle
    /\ RbacIdle
    /\ VerIdle
    /\ ExtIdle
    /\ FacIdle

NextDrop ==
    \/ \E c \in DropTargets, b \in BatchSizes : DropColumnCall("t", c, b)
    \/ CreateTemp
    \/ CopyBatch
    \/ DropSource
    \/ RenameTemp

SpecDrop == InitDrop /\ [][NextDrop]_vars


(***************************************************************************)
(* Column-drop: the claims.                                                *)
(***************************************************************************)
DropDone == pc = "idle" /\ dc.called /\ ret.op = "DropColumn"

RenderCols(cols) == [i \in 1..Len(cols) |-> cols[i].name \o <<SP>> \o cols[i].type]

KeptCols(cols, c) ==
    LET Keep(x) == x.name # c IN SelectSeq(cols, Keep)

\* every row of before is in after under the same id with the same value in
\* every column of names, and after holds as many rows as before
SameRows(before, after, names) ==
    /\ Len(after) = Len(before)
    /\ \A i \in 1..Len(before) :
          \E j \in 1..Len(after) :
             /\ after[j][c_id] = before[i][c_id]
             /\ \A c \in names : after[j][c] = before[i][c]

DropPreserved ==
    LET was == pre[dc.table]
        is == db[dc.table]
    IN /\ is.exists
       /\ GetTableSchema(dc.table) = RenderCols(KeptCols(was.cols, dc.column))
       /\ SameRows(was.rows, is.rows, ColNames(was) \ {dc.column})
       /\ \A j \in 1..Len(is.rows) : DOMAIN is.rows[j] = ColNames(was) \ {dc.column}

\* C1: after DropColumn(t, c, b) with b >= 1 and c an existing non-core column
\* returns success, the schema of t is the former schema minus c, t holds as
\* many rows as before, and every retained column of every id has its value.
C1_DropColumnKeepsRows ==
    (/\ DropDone
     /\ ret.val = "ok"
     /\ dc.batch >= 1
     /\ dc.column \notin CoreNames
     /\ dc.column \in ColNames(pre[dc.table]))
        => DropPreserved

\* C1 witness: a drop of column a over three rows, copied in batches of two
C1_Witness ==
    /\ DropDone
    /\ ret.val = "ok"
    /\ dc.column = c_a
    /\ dc.batch = 2
    /\ Len(pre["t"].rows) = 3
    /\ Len(db["t"].rows) = 3
    /\ c_ab \in ColNames(db["t"])

\* C2: when a statement of the copy loop fails (the INSERT or the reading of
\* its rows-affected count) the call returns that error at once, has issued
\* neither DROP TABLE nor RENAME, and the source table is as it was.
C2_CopyFailureLeavesSource ==
    (dc.fault \in {"COPY", "ROWS_AFFECTED"})
        => /\ pc = "idle"
           /\ ret.op = "DropColumn"
           /\ ret.val \in {"copy_failed", "rows_affected_failed"}
           /\ \A k \in 1..Len(dc.log) : dc.log[k] \notin {"DROP", "RENAME"}
           /\ db[dc.table] = pre[dc.table]
           /\ db[dc.table].exists

\* C2 witness: the second batch of a copy failed, the first batch sits in t_temp
C2_Witness ==
    /\ DropDone
    /\ dc.fault = "COPY"
    /\ ret.val = "copy_failed"
    /\ Len(dc.log) = 3
    /\ Len(db["t_temp"].rows) = 1
    /\ Len(db["t"].rows) = 2

\* C3: a DropColumn(t, c, b) that follows one that failed in the copy loop, and
\* meets no fault itself, succeeds and preserves every row.
C3_RetryAfterCopyFailureSucceeds ==
    (/\ DropDone
     /\ dc.retry
     /\ dc.fault = "none"
     /\ dc.batch >= 1)
        => /\ ret.val = "ok"
           /\ DropPreserved

\* C4: DropColumn(t, c, b) with c not a column of t returns the not-found
\* error, issues no statement (so creates no temporary table) and leaves every
\* table as it was.
C4_MissingColumnNotFound ==
    (/\ DropDone
     /\ dc.fault = "none"
     /\ dc.column \notin ColNames(pre[dc.table]))
        => /\ ret.val = "not_found"
           /\ dc.log = <<>>
           /\ db = pre

\* C4 witness: column a, dropped before, is asked for again while ab remains
C4_Witness ==
    /\ DropDone
    /\ ret.val = "not_found"
    /\ dc.column = c_a
    /\ db["t"].exists
    /\ c_ab \in ColNames(db["t"])
    /\ ~db["t_temp"].exists


(***************************************************************************)
(* Row operations: the DynamicStore over database/sql, the typed stores    *)
(* built on it, and the SQLiteDynamicStore over gorm.                      *)
(***************************************************************************)
MaxTime == 1

Ids == {1, 2}
Vals == {1, 2}

EmptyMap == [c \in {} |-> 0]

HasId(rows, id) == \E i \in 1..Len(rows) : rows[i][c_id] = id

\* a column left out of an INSERT takes its default
ColDefault(c, clock) == IF c \in {c_created_at, c_updated_at} THEN clock ELSE NULL

\* INSERT INTO t (<columns of data>) VALUES (...) is accepted by the engine
InsertAccepted(tbl, data) ==
    /\ tbl.exists
    /\ DOMAIN data # {}
    /\ DOMAIN data \subseteq ColNames(tbl)
    /\ c_id \in DOMAIN data => ~HasId(tbl.rows, data[c_id])

NewRow(tbl, data, clock) ==
    [c \in ColNames(tbl) |-> IF c \in DOMAIN data THEN data[c] ELSE ColDefault(c, clock)]

\* UPDATE t SET <data>, updated_at = CURRENT_TIMESTAMP WHERE id = ?
UpdateAccepted(tbl, data) ==
    /\ tbl.exists
    /\ DOMAIN data # {}
    /\ DOMAIN data \subseteq ColNames(tbl)

UpdatedRow(row, data, clock) ==
    [c \in DOMAIN row |->
        IF c = c_updated_at THEN clock
        ELSE IF c \in DOMAIN data THEN data[c] ELSE row[c]]

UpdateRows(rows, id, data, clock) ==
    [i \in 1..Len(rows) |->
        IF rows[i][c_id] = id THEN UpdatedRow(rows[i], data, clock) ELSE rows[i]]

\* UPDATE t SET deleted_at = CURRENT_TIMESTAMP WHERE id = ? AND deleted_at IS NULL
Live(row) == row[c_deleted_at] = NULL

SoftDeleteRows(rows, id, clock) ==
    [i \in 1..Len(rows) |->
        IF rows[i][c_id] = id /\ Live(rows[i])
        THEN [rows[i] EXCEPT ![c_deleted_at] = clock]
        ELSE rows[i]]

Affected(rows, id) == {i \in 1..Len(rows) : rows[i][c_id] = id}

AffectedLive(rows, id) == {i \in 1..Len(rows) : rows[i][c_id] = id /\ Live(rows[i])}

\* DELETE FROM t WHERE id = ?
RowsWithout(rows, id) ==
    LET Keep(r) == r[c_id] # id IN SelectSeq(rows, Keep)

RowsWith(rows, id) ==
    LET Hit(r) == r[c_id] = id IN SelectSeq(rows, Hit)

\* SELECT * FROM t WHERE deleted_at IS NULL AND <col = ?>...
DynamicSelectRows(tbl, conditions) ==
    LET Hit(r) == Live(r) /\ \A c \in DOMAIN conditions :
                                 r[c] # NULL /\ r[c] = conditions[c]
    IN SelectSeq(tbl.rows, Hit)

SelectAccepted(tbl, conditions) ==
    tbl.exists /\ DOMAIN conditions \subseteq ColNames(tbl)

Read(k, rows) == [key |-> k, rows |-> rows]

DynamicInsert(t, data) ==
    /\ pc = "idle"
    /\ IF InsertAccepted(db[t], data)
       THEN /\ db' = [db EXCEPT ![t].rows = Append(@, NewRow(db[t], data, now))]
            /\ deleted' = IF c_id \in DOMAIN data THEN deleted \ {data[c_id]} ELSE deleted
            /\ ret' = Ret("DynamicInsert", "ok")
       ELSE /\ ret' = Ret("DynamicInsert", "error")
            /\ UNCHANGED <<db, deleted>>
    /\ res' = NoRes
    /\ UNCHANGED <<registry, pc, dc, pre, now, rbacVars, verVars, facVars, qbVars, extVars>>

DynamicUpdate(t, id, data) ==
    /\ pc = "idle"
    /\ IF ~UpdateAccepted(db[t], data)
       THEN /\ ret' = Ret("DynamicUpdate", "error")
            /\ UNCHANGED db
       ELSE IF Affected(db[t].rows, id) = {}
       THEN /\ ret' = Ret("DynamicUpdate", "not_found")
            /\ UNCHANGED db
       ELSE /\ db' = [db EXCEPT ![t].rows = UpdateRows(@, id, data, now)]
            /\ ret' = Ret("DynamicUpdate", "ok")
    /\ res' = NoRes
    /\ UNCHANGED <<registry, pc, dc, pre, now, deleted, rbacVars, verVars, facVars, qbVars, extVars>>

DynamicDelete(t, id) ==
    /\ pc = "idle"
    /\ IF ~db[t].exists
       THEN /\ ret' = Ret("DynamicDelete", "error")
            /\ UNCHANGED <<db, deleted>>
       ELSE IF AffectedLive(db[t].rows, id) = {}
       THEN /\ ret' = Ret("DynamicDelete", "not_found")
            /\ UNCHANGED <<db, deleted>>
       ELSE /\ db' = [db EXCEPT ![t].rows = SoftDeleteRows(@, id, now)]
            /\ deleted' = deleted \cup {id}
            /\ ret' = Ret("DynamicDelete", "ok")
    /\ res' = NoRes
    /\ UNCHANGED <<registry, pc, dc, pre, now, rbacVars, verVars, facVars, qbVars, extVars>>

DynamicSelect(t, conditions) ==
    /\ pc = "idle"
    /\ IF SelectAccepted(db[t], conditions)
       THEN /\ res' = Read(0, DynamicSelectRows(db[t], conditions))
            /\ ret' = Ret("DynamicSelect", "ok")
       ELSE /\ res' = NoRes
            /\ ret' = Ret("DynamicSelect", "error")
    /\ UNCHANGED <<db, registry, pc, dc, pre, now, deleted, rbacVars, verVars, facVars, qbVars, extVars>>

\* the typed stores' Get: DynamicSelect on the id, then the first row
Store_Get(t, id) ==
    /\ pc = "idle"
    /\ LET results == DynamicSelectRows(db[t], c_id :> id)
       IN IF ~SelectAccepted(db[t], c_id :> id)
          THEN /\ res' = Read(id, <<>>)
               /\ ret' = Ret("Store_Get", "error")
          ELSE IF Len(results) = 0
          THEN /\ res' = Read(id, <<>>)
               /\ ret' = Ret("Store_Get", "not_found")
          ELSE /\ res' = Read(id, <<results[1]>>)
               /\ ret' = Ret("Store_Get", "ok")
    /\ UNCHANGED <<db, registry, pc, dc, pre, now, deleted, rbacVars, verVars, facVars, qbVars, extVars>>

\* SQLiteDynamicStore.Get: SELECT * FROM t WHERE id = ?, then the first row
SQLiteDynamicStore_Get(t, id) ==
    /\ pc = "idle"
    /\ LET rows == RowsWith(db[t].rows, id)
       IN IF ~db[t].exists
          THEN /\ res' = Read(id, <<>>)
               /\ ret' = Ret("SQLiteDynamicStore_Get", "error")
          ELSE IF Len(rows) = 0
          THEN /\ res' = Read(id, <<>>)
               /\ ret' = Ret("SQLiteDynamicStore_Get", "not_found")
          ELSE /\ res' = Read(id, <<rows[1]>>)
               /\ ret' = Ret("SQLiteDynamicStore_Get", "ok")
    /\ UNCHANGED <<db, registry, pc, dc, pre, now, deleted, rbacVars, verVars, facVars, qbVars, extVars>>

\* SQLiteDynamicStore.Delete: DELETE FROM t WHERE id = ?
SQLiteDynamicStore_Delete(t, id) ==
    /\ pc = "idle"
    /\ IF ~db[t].exists
       THEN /\ ret' = Ret("SQLiteDynamicStore_Delete", "error")
            /\ UNCHANGED <<db, deleted>>
       ELSE IF Affected(db[t].rows, id) = {}
       THEN /\ ret' = Ret("SQLiteDynamicStore_Delete", "not_found")
            /\ UNCHANGED <<db, deleted>>
       ELSE /\ db' = [db EXCEPT ![t].rows = RowsWithout(@, id)]
            /\ deleted' = deleted \cup {id}
            /\ ret' = Ret("SQLiteDynamicStore_Delete", "ok")
    /\ res' = NoRes
    /\ UNCHANGED <<registry, pc, dc, pre, now, rbacVars, verVars, facVars, qbVars, extVars>>

\* CURRENT_TIMESTAMP moves on between two statements, or does not
Tick ==
    /\ now < MaxTime
    /\ now' = now + 1
    /\ UNCHANGED <<db, registry, pc, dc, ret, pre, res, deleted, rbacVars, verVars, facVars, qbVars, extVars>>

(***************************************************************************)
(* DynamicQuery and the query builder.                                     *)
(***************************************************************************)
\* the comparison operators of the engine; "==" is its other spelling of "="
SqlOperators == {"=", "==", "!=", "<", "<=", ">", ">="}

\* <x> <op> <y> in SQL: a comparison with NULL is not true
Compare(op, x, y) ==
    /\ x # NULL
    /\ y # NULL
    /\ CASE op = "="  -> x = y
         [] op = "==" -> x = y
         [] op = "!=" -> x # y
         [] op = "<"  -> x < y
         [] op = "<=" -> x <= y
         [] op = ">"  -> x > y
         [] op = ">=" -> x >= y
         [] OTHER     -> FALSE

\* GetWhereClause appends one argument for each condition to Args
GetArgs(q) == q.Args \o [i \in 1..Len(q.Where) |-> q.Where[i].Value]

\* GetSelectClause: no columns listed is "*"
GetSelectClause(q, tbl) ==
    IF Len(q.SelectColumns) = 0
    THEN [i \in 1..Len(tbl.cols) |-> tbl.cols[i].name]
    ELSE q.SelectColumns

\* GetLimitClause: no LIMIT (and no OFFSET) unless Limit > 0
GetLimitClause(q, rows) ==
    IF q.Limit <= 0 THEN rows
    ELSE IF q.Offset > 0 THEN SqlLimitOffset(rows, q.Limit, q.Offset)
    ELSE SqlLimitOffset(rows, q.Limit, 0)

\* ORDER BY: r1 sorts strictly before r2
RECURSIVE RowBefore(_, _, _, _)
RowBefore(r1, r2, orderBy, k) ==
    IF k > Len(orderBy) THEN FALSE
    ELSE LET x == r1[orderBy[k].Column]
             y == r2[orderBy[k].Column]
         IN IF x = y THEN RowBefore(r1, r2, orderBy, k + 1)
            ELSE IF orderBy[k].Desc THEN x > y ELSE x < y

InsertSorted(sorted, r, orderBy) ==
    LET later == {i \in 1..Len(sorted) : RowBefore(r, sorted[i], orderBy, 1)}
        at == IF later = {} THEN Len(sorted) + 1
              ELSE CHOOSE i \in later : \A j \in later : i <= j
    IN SubSeq(sorted, 1, at - 1) \o <<r>> \o SubSeq(sorted, at, Len(sorted))

RECURSIVE SortRows(_, _)
SortRows(rows, orderBy) ==
    IF Len(rows) = 0 THEN <<>>
    ELSE InsertSorted(SortRows(SubSeq(rows, 1, Len(rows) - 1), orderBy),
                      rows[Len(rows)], orderBy)

\* the statement the builder renders is one the engine runs
QueryAccepted(tbl, q) ==
    /\ tbl.exists
    /\ \A i \in 1..Len(q.SelectColumns) : q.SelectColumns[i] \in ColNames(tbl)
    /\ \A i \in 1..Len(q.Where) :
          q.Where[i].Column \in ColNames(tbl) /\ q.Where[i].Operator \in SqlOperators
    /\ \A i \in 1..Len(q.OrderBy) : q.OrderBy[i].Column \in ColNames(tbl)
    /\ Len(GetArgs(q)) = Len(q.Where)

QueryRows(tbl, q) ==
    LET args == GetArgs(q)
        Hit(r) == \A i \in 1..Len(q.Where) :
                     Compare(q.Where[i].Operator, r[q.Where[i].Column], args[i])
        found == SelectSeq(tbl.rows, Hit)
        sorted == IF Len(q.OrderBy) = 0 THEN found ELSE SortRows(found, q.OrderBy)
    IN ProjectAll(GetLimitClause(q, sorted), GetSelectClause(q, tbl))

DynamicQuery(t, q) ==
    /\ pc = "idle"
    /\ IF QueryAccepted(db[t], q)
       THEN /\ res' = Read(0, QueryRows(db[t], q))
            /\ ret' = Ret("DynamicQuery", "ok")
       ELSE /\ res' = NoRes
            /\ ret' = Ret("DynamicQuery", "error")
    /\ UNCHANGED <<db, registry, pc, dc, pre, now, deleted, rbacVars, verVars, facVars, qbVars, extVars>>

(***************************************************************************)
(* The row-operation specification: one table with the core columns and    *)
(* one data column.                                                        *)
(***************************************************************************)
CrudCols == CoreCols \o << [name |-> c_a, type |-> INTEGER] >>

QueryParams(sel, where, orderBy, limit, offset) ==
    [SelectColumns |-> sel, Where |-> where, OrderBy |-> orderBy,
     Limit |-> limit, Offset |-> offset, Args |-> <<>>]

WhereCondition(c, op, v) == [Column |-> c, Operator |-> op, Value |-> v]

OrderByClause(c, desc) == [Column |-> c, Desc |-> desc]

Queries ==
    { QueryParams(<<>>, <<>>, <<>>, 0, 0),
      QueryParams(<<c_id, c_a>>, <<WhereCondition(c_a, "=", 1)>>, <<>>, 0, 0),
      QueryParams(<<>>, <<>>, <<OrderByClause(c_id, TRUE)>>, 1, 1),
      QueryParams(<<>>, <<WhereCondition(c_a, "=>", 1)>>, <<>>, 0, 0),
      QueryParams(<<>>, <<WhereCondition(c_a, "==", 1)>>, <<>>, 0, 0) }

InsertData == {(c_id :> i) @@ (c_a :> v) : i \in Ids, v \in Vals}
                 \cup {(c_id :> 1) @@ (c_zz :> 1)}

UpdateData == {EmptyMap} \cup {c_a :> v : v \in Vals}

Conditions == {EmptyMap} \cup {c_a :> v : v \in Vals} \cup {c_zz :> 1}

InitCrud ==
    /\ db = [x \in TableNames |->
                IF x = "t"
                THEN [exists |-> TRUE, cols |-> CrudCols, rows |-> <<>>]
                ELSE NoTable]
    /\ registry = {"t"}
    /\ pc = "idle"
    /\ dc = IdleFrame
    /\ ret = Ret("none", "none")
    /\ pre = db
    /\ CrudIdle
    /\ RbacIdle
    /\ VerIdle
    /\ ExtIdle
    /\ FacIdle

\* "u" is a table that was never created
CrudTables == {"t", "u"}

NextCrud ==
    \/ \E t \in CrudTables, data \in InsertData : DynamicInsert(t, data)
    \/ \E t \in CrudTables, id \in Ids, data \in UpdateData : DynamicUpdate(t, id, data)
    \/ \E t \in CrudTables, id \in Ids : DynamicDelete(t, id)
    \/ \E t \in CrudTables, conditions \in Conditions : DynamicSelect(t, conditions)
    \/ \E t \in CrudTables, q \in Queries : DynamicQuery(t, q)
    \/ \E t \in CrudTables, id \in Ids : Store_Get(t, id)
    \/ \E t \in CrudTables, id \in Ids : SQLiteDynamicStore_Get(t, id)
    \/ \E t \in CrudTables, id \in Ids : SQLiteDynamicStore_Delete(t, id)
    \/ Tick

SpecCrud == InitCrud /\ [][NextCrud]_vars

\* the row of the table that carries this id, if any is soft-deleted
SoftDeleted(id) ==
    \E i \in 1..Len(db["t"].rows) :
        db["t"].rows[i][c_id] = id /\ ~Live(db["t"].rows[i])

ReadOps == {"DynamicSelect", "DynamicQuery", "Store_Get", "SQLiteDynamicStore_Get"}

GetOps == {"Store_Get", "SQLiteDynamicStore_Get"}

\* C5: once a delete of an id has succeeded, every get of that id answers
\* NotFound, no DynamicSelect returns a row with that id, and the table still
\* holds the row, with deleted_at set.
C5_DeletedStaysDeleted ==
    \A id \in deleted :
        /\ SoftDeleted(id)
        /\ (ret.op \in GetOps /\ res.key = id) => ret.val = "not_found"
        /\ (ret.op = "DynamicSelect" /\ ret.val = "ok")
              => \A j \in 1..Len(res.rows) : res.rows[j][c_id] # id

\* C6: no read returns a row whose deleted_at is set.
C6_ReadsSkipSoftDeleted ==
    (ret.op \in ReadOps /\ ret.val = "ok")
        => \A j \in 1..Len(res.rows) :
              /\ c_deleted_at \in DOMAIN res.rows[j] => Live(res.rows[j])
              /\ c_id \in DOMAIN res.rows[j] => ~SoftDeleted(res.rows[j][c_id])

(***************************************************************************)
(* RBAC: the controller over its store.                                    *)
(***************************************************************************)
MaxRules == 2

RoleNames == {"admin", "reader"}
BindingNames == {"b1", "b2"}
UserNames == {"alice", "bob"}

\* a store read that fails: the listing, or GetRole of one role
ListFault == "ListRoleBindings"
StoreFaults == {{}, {ListFault}, {"admin"}}

NoRole == [exists |-> FALSE, Rules |-> <<>>]
NoBinding == [exists |-> FALSE, RoleRef |-> "", Subjects |-> <<>>]
NoAccess == [called |-> FALSE]

PolicyRule(verbs, resources, apiGroups) ==
    [Verbs |-> verbs, Resources |-> resources, APIGroups |-> apiGroups]

Subject(kind, name) == [Kind |-> kind, Name |-> name]

contains(slice, item) == \E i \in 1..Len(slice) : slice[i] = item

\* memoryStore.GetRole, and the reads that fail
GetRole(rs, fault, name) ==
    IF name \in fault THEN [err |-> "storage", Rules |-> <<>>]
    ELSE IF name \notin DOMAIN rs \/ ~rs[name].exists
    THEN [err |-> "not_found", Rules |-> <<>>]
    ELSE [err |-> "none", Rules |-> rs[name].Rules]

\* ListRoleBindings ranges over a map: the bindings in any order
BindingLists(rb) ==
    LET names == {b \in DOMAIN rb : rb[b].exists}
        orders == {o \in [1..Cardinality(names) -> names] :
                      \A i, j \in DOMAIN o : i # j => o[i] # o[j]}
    IN {[i \in DOMAIN o |-> rb[o[i]]] : o \in orders}

\* the subject test of the first loop, without the kind
SubjectMatchesAnyKind(subject, userName) == subject.Name = userName

SubjectMatches(subject, userName) ==
    subject.Kind = "User" /\ subject.Name = userName

\* the first loop: one entry for each matching subject of each binding
RECURSIVE FindUserBindings(_, _, _)
FindUserBindings(bindings, userName, i) ==
    IF i > Len(bindings) THEN <<>>
    ELSE LET Hit(subject) == SubjectMatches(subject, userName)
             hits == SelectSeq(bindings[i].Subjects, Hit)
         IN [j \in 1..Len(hits) |-> bindings[i]]
                \o FindUserBindings(bindings, userName, i + 1)

\* the body of the rule loop
RuleAllows(rule, verb, resource, apiGroup) ==
    IF ~contains(rule.APIGroups, apiGroup) /\ ~contains(rule.APIGroups, "*") THEN FALSE
    ELSE IF ~contains(rule.Resources, resource) /\ ~contains(rule.Resources, "*") THEN FALSE
    ELSE contains(rule.Verbs, verb) \/ contains(rule.Verbs, "*")

\* the rule loop, were it to ask every rule to allow
RulesAllowEvery(rules, i, verb, resource, apiGroup) ==
    /\ Len(rules) > 0
    /\ \A j \in i..Len(rules) : RuleAllows(rules[j], verb, resource, apiGroup)

RECURSIVE RulesAllow(_, _, _, _, _)
RulesAllow(rules, i, verb, resource, apiGroup) ==
    IF i > Len(rules) THEN FALSE
    ELSE IF RuleAllows(rules[i], verb, resource, apiGroup) THEN TRUE
    ELSE RulesAllow(rules, i + 1, verb, resource, apiGroup)

\* the second loop; failed records that a GetRole it made failed in the store
RECURSIVE CheckRoles(_, _, _, _, _, _, _, _)
CheckRoles(userBindings, i, failed, rs, fault, verb, resource, apiGroup) ==
    IF i > Len(userBindings) THEN [allowed |-> FALSE, failed |-> failed]
    ELSE LET got == GetRole(rs, fault, userBindings[i].RoleRef)
         IN IF got.err # "none"
            THEN CheckRoles(userBindings, i + 1, failed \/ got.err = "storage",
                            rs, fault, verb, resource, apiGroup)
            ELSE IF RulesAllow(got.Rules, 1, verb, resource, apiGroup)
            THEN [allowed |-> TRUE, failed |-> failed]
            ELSE CheckRoles(userBindings, i + 1, failed,
                            rs, fault, verb, resource, apiGroup)

\* CheckAccess over the bindings as ListRoleBindings returned them
CheckAccessOn(bindings, rs, fault, user, verb, resource, apiGroup) ==
    IF user = "nil"
    THEN [allowed |-> FALSE, err |-> "InvalidInput", failed |-> FALSE]
    ELSE IF ListFault \in fault
    THEN [allowed |-> FALSE, err |-> "Internal", failed |-> TRUE]
    ELSE LET r == CheckRoles(FindUserBindings(bindings, user, 1), 1, FALSE,
                             rs, fault, verb, resource, apiGroup)
         IN [allowed |-> r.allowed, err |-> "none", failed |-> r.failed]

\* the validation of CreateRole
ValidRole(role) ==
    /\ role.Name # ""
    /\ Len(role.Rules) > 0
    /\ \A i \in 1..Len(role.Rules) :
          /\ Len(role.Rules[i].Verbs) > 0
          /\ Len(role.Rules[i].Resources) > 0
          /\ Len(role.Rules[i].APIGroups) > 0

\* the validation of CreateRoleBinding
\* a nil *RoleBinding
NilBinding == [Nil |-> TRUE]

\* a validation that asks for the name alone
ValidBindingNamed(binding) ==
    /\ binding # NilBinding
    /\ binding.Name # ""

ValidBinding(binding) ==
    /\ binding # NilBinding
    /\ binding.Name # ""
    /\ binding.RoleRef # ""
    /\ Len(binding.Subjects) > 0

\* the bindings the loop of DeleteRole can stop at: the listing ranges over a
\* map, so the first binding that names the role is any binding that names it
Referencing(rb, name) == {b \in DOMAIN rb : rb[b].exists /\ rb[b].RoleRef = name}

\* a loop that finds no binding
ReferencedNever(rb, name) == FALSE

Referenced(rb, name) == Referencing(rb, name) # {}

RbacReturn(op, val) ==
    /\ ret' = Ret(op, val)
    /\ access' = NoAccess
    /\ UNCHANGED <<db, registry, pc, dc, pre, crudVars, storeFault, verVars, facVars, qbVars, extVars>>

\* an error returned WithReason naming an object
RbacReturnReason(op, val, reason) ==
    /\ ret' = [op |-> op, val |-> val, reason |-> reason]
    /\ access' = NoAccess
    /\ UNCHANGED <<db, registry, pc, dc, pre, crudVars, storeFault, verVars, facVars, qbVars, extVars>>

CreateRole(role) ==
    /\ IF ~ValidRole(role)
       THEN /\ RbacReturn("CreateRole", "InvalidInput")
            /\ UNCHANGED roles
       ELSE IF roles[role.Name].exists
       THEN /\ RbacReturn("CreateRole", "RoleExists")
            /\ UNCHANGED roles
       ELSE /\ roles' = [roles EXCEPT ![role.Name] = [exists |-> TRUE, Rules |-> role.Rules]]
            /\ RbacReturn("CreateRole", "ok")
    /\ UNCHANGED roleBindings

DeleteRole(name) ==
    /\ IF name = ""
       THEN /\ RbacReturn("DeleteRole", "InvalidInput")
            /\ UNCHANGED roles
       ELSE IF GetRole(roles, storeFault, name).err # "none"
       THEN /\ RbacReturn("DeleteRole", GetRole(roles, storeFault, name).err)
            /\ UNCHANGED roles
       ELSE IF ListFault \in storeFault
       THEN /\ RbacReturn("DeleteRole", "Internal")
            /\ UNCHANGED roles
       ELSE IF Referenced(roleBindings, name)
       THEN /\ \E b \in Referencing(roleBindings, name) :
                  RbacReturnReason("DeleteRole", "InvalidInput", b)
            /\ UNCHANGED roles
       ELSE /\ roles' = [roles EXCEPT ![name] = NoRole]
            /\ RbacReturn("DeleteRole", "ok")
    /\ UNCHANGED roleBindings

\* the store's own DeleteRole, which asks nothing about bindings
memoryStore_DeleteRole(name) ==
    /\ IF ~roles[name].exists
       THEN /\ RbacReturn("memoryStore_DeleteRole", "not_found")
            /\ UNCHANGED roles
       ELSE /\ roles' = [roles EXCEPT ![name] = NoRole]
            /\ RbacReturn("memoryStore_DeleteRole", "ok")
    /\ UNCHANGED roleBindings

\* the store's UpdateRole: the role is replaced
memoryStore_UpdateRole(role) ==
    /\ IF ~roles[role.Name].exists
       THEN /\ RbacReturn("memoryStore_UpdateRole", "not_found")
            /\ UNCHANGED roles
       ELSE /\ roles' = [roles EXCEPT ![role.Name].Rules = role.Rules]
            /\ RbacReturn("memoryStore_UpdateRole", "ok")
    /\ UNCHANGED roleBindings

CreateRoleBinding(binding) ==
    /\ IF ~ValidBinding(binding)
       THEN /\ RbacReturn("CreateRoleBinding", "InvalidInput")
            /\ UNCHANGED roleBindings
       ELSE IF GetRole(roles, storeFault, binding.RoleRef).err # "none"
       THEN /\ RbacReturn("CreateRoleBinding", GetRole(roles, storeFault, binding.RoleRef).err)
            /\ UNCHANGED roleBindings
       ELSE IF roleBindings[binding.Name].exists
       THEN /\ RbacReturn("CreateRoleBinding", "AlreadyExists")
            /\ UNCHANGED roleBindings
       ELSE /\ roleBindings' = [roleBindings EXCEPT ![binding.Name] =
                                   [exists |-> TRUE, RoleRef |-> binding.RoleRef,
                                    Subjects |-> binding.Subjects]]
            /\ RbacReturn("CreateRoleBinding", "ok")
    /\ UNCHANGED roles

DeleteRoleBinding(name) ==
    /\ IF name = ""
       THEN /\ RbacReturn("DeleteRoleBinding", "InvalidInput")
            /\ UNCHANGED roleBindings
       ELSE IF ~roleBindings[name].exists
       THEN /\ RbacReturn("DeleteRoleBinding", "not_found")
            /\ UNCHANGED roleBindings
       ELSE /\ roleBindings' = [roleBindings EXCEPT ![name] = NoBinding]
            /\ RbacReturn("DeleteRoleBinding", "ok")
    /\ UNCHANGED roles

CheckAccess(user, verb, resource, apiGroup) ==
    /\ \E bindings \in BindingLists(roleBindings) :
          LET r == CheckAccessOn(bindings, roles, storeFault, user, verb, resource, apiGroup)
          IN /\ access' = [called |-> TRUE, user |-> user, verb |-> verb,
                           resource |-> resource, apiGroup |-> apiGroup,
                           allowed |-> r.allowed, err |-> r.err, failed |-> r.failed]
             /\ ret' = Ret("CheckAccess", r.err)
    /\ UNCHANGED <<db, registry, pc, dc, pre, crudVars, roles, roleBindings, storeFault, verVars, facVars, qbVars, extVars>>

\* a store read starts or stops failing
SetFault(fault) ==
    /\ fault # storeFault
    /\ storeFault' = fault
    /\ access' = NoAccess
    /\ UNCHANGED <<db, registry, pc, dc, ret, pre, crudVars, roles, roleBindings, verVars, facVars, qbVars, extVars>>

(***************************************************************************)
(* The RBAC specification.                                                 *)
(***************************************************************************)
R_star == PolicyRule(<<"*">>, <<"*">>, <<"*">>)
R_read == PolicyRule(<<"get", "list">>, <<"users">>, <<"auth.service">>)

RuleSet == {R_star, R_read}

Role(name, rules) == [Name |-> name, Rules |-> rules]

RoleBinding(name, roleRef, subjects) ==
    [Name |-> name, RoleRef |-> roleRef, Subjects |-> subjects]

NewRoles ==
    {Role(n, <<r>>) : n \in RoleNames, r \in RuleSet}
        \cup { Role("admin", <<>>), Role("", <<R_star>>),
               Role("admin", <<PolicyRule(<<>>, <<"*">>, <<"*">>)>>) }

NewBindings ==
    { RoleBinding("b1", "admin", <<Subject("User", "alice")>>),
      RoleBinding("b1", "reader", <<Subject("Group", "alice"), Subject("User", "bob")>>),
      RoleBinding("b2", "reader", <<Subject("User", "alice")>>),
      RoleBinding("b2", "admin", <<Subject("Group", "alice"), Subject("User", "bob")>>),
      RoleBinding("", "admin", <<Subject("User", "alice")>>),
               RoleBinding("b1", "", <<Subject("User", "alice")>>),
               RoleBinding("b1", "admin", <<>>),
               NilBinding }

Requests ==
    { <<"get", "users", "auth.service">>,
      <<"delete", "users", "auth.service">>,
      <<"get", "roles", "other">> }

\* the role with one more rule, at any place in its list
WithRule(rules, k, rule) == SubSeq(rules, 1, k) \o <<rule>> \o SubSeq(rules, k + 1, Len(rules))

InitRbac ==
    /\ db = [x \in TableNames |-> NoTable]
    /\ registry = {}
    /\ pc = "idle"
    /\ dc = IdleFrame
    /\ ret = Ret("none", "none")
    /\ pre = db
    /\ CrudIdle
    /\ roles = [r \in RoleNames |-> NoRole]
    /\ roleBindings = [b \in BindingNames |-> NoBinding]
    /\ storeFault = {}
    /\ access = NoAccess
    /\ VerIdle
    /\ ExtIdle
    /\ FacIdle

NextRbac ==
    \/ \E role \in NewRoles : CreateRole(role)
    \/ \E name \in RoleNames \cup {""} : DeleteRole(name)
    \/ \E name \in RoleNames : memoryStore_DeleteRole(name)
    \/ \E name \in RoleNames, rule \in RuleSet, k \in 0..MaxRules :
          /\ k <= Len(roles[name].Rules)
          /\ Len(roles[name].Rules) < MaxRules
          /\ ~contains(roles[name].Rules, rule)
          /\ memoryStore_UpdateRole(Role(name, WithRule(roles[name].Rules, k, rule)))
    \/ \E binding \in NewBindings : CreateRoleBinding(binding)
    \/ \E name \in BindingNames \cup {""} : DeleteRoleBinding(name)
    \/ \E user \in UserNames \cup {"nil"}, q \in Requests : CheckAccess(user, q[1], q[2], q[3])
    \/ \E fault \in StoreFaults : SetFault(fault)

SpecRbac == InitRbac /\ [][NextRbac]_vars

\* what the claims say of a request: a binding with a User subject of that
\* name, whose role can be fetched, and a rule of the role that admits it
Elems(slice) == {slice[i] : i \in 1..Len(slice)}

Admits(rule, verb, resource, apiGroup) ==
    /\ {apiGroup, "*"} \cap Elems(rule.APIGroups) # {}
    /\ {resource, "*"} \cap Elems(rule.Resources) # {}
    /\ {verb, "*"} \cap Elems(rule.Verbs) # {}

Granted(rb, rs, fault, user, verb, resource, apiGroup) ==
    \E b \in DOMAIN rb :
        /\ rb[b].exists
        /\ Subject("User", user) \in Elems(rb[b].Subjects)
        /\ rs[rb[b].RoleRef].exists
        /\ rb[b].RoleRef \notin fault
        /\ \E rule \in Elems(rs[rb[b].RoleRef].Rules) : Admits(rule, verb, resource, apiGroup)

AccessGranted ==
    Granted(roleBindings, roles, storeFault,
            access.user, access.verb, access.resource, access.apiGroup)

\* C7 as stated: CheckAccess of a user returns true exactly when such a
\* binding, role and rule exist, and otherwise returns false without error.
C7_CheckAccessIffGranted ==
    (access.called /\ access.user # "nil") =>
        /\ access.allowed <=> AccessGranted
        /\ ~AccessGranted => (~access.allowed /\ access.err = "none")

\* C7, amended: for a user that is not nil and a listing of the role bindings
\* that succeeds, CheckAccess returns true exactly when such a binding, role
\* and rule exist, and otherwise returns false without error.
C7_CheckAccessIffGrantedWhenListed ==
    (access.called /\ access.user # "nil" /\ ListFault \notin storeFault) =>
        /\ access.allowed <=> AccessGranted
        /\ access.err = "none"

\* a request admitted by the wildcard alone, while another binding of the
\* same user names a role that does not exist
C7_Witness ==
    /\ access.called
    /\ access.allowed
    /\ access.verb = "delete"
    /\ \E b \in BindingNames :
          /\ roleBindings[b].exists
          /\ Subject("User", access.user) \in Elems(roleBindings[b].Subjects)
          /\ ~roles[roleBindings[b].RoleRef].exists

\* C8: when a store read that CheckAccess makes fails, CheckAccess returns an
\* error and does not return true.
C8_NeverFailsOpen ==
    (access.called /\ access.failed) => (access.err # "none" /\ ~access.allowed)

\* the requests CheckAccess allows a user, over the bindings in any order
Allowed(rb, rs, fault, user, q) ==
    \E bindings \in BindingLists(rb) :
        CheckAccessOn(bindings, rs, fault, user, q[1], q[2], q[3]).allowed

AllowedAlways(rb, rs, fault, user, q) ==
    \A bindings \in BindingLists(rb) :
        CheckAccessOn(bindings, rs, fault, user, q[1], q[2], q[3]).allowed

RuleAdded ==
    \E name \in RoleNames, rule \in RuleSet, k \in 0..MaxRules :
        /\ roles[name].exists
        /\ k <= Len(roles[name].Rules)
        /\ roles' = [roles EXCEPT ![name].Rules = WithRule(@, k, rule)]
        /\ UNCHANGED <<roleBindings, storeFault>>

\* C9: a request CheckAccess allows a user is still allowed after a rule is
\* added to a role.
C9_AddingRuleKeepsAllowed ==
    [][RuleAdded =>
          \A user \in UserNames, q \in Requests :
              Allowed(roleBindings, roles, storeFault, user, q)
                  => AllowedAlways(roleBindings', roles', storeFault', user, q)]_vars

\* a rule was added to a role of two rules now, and a user bound to that role
\* is allowed a request
C9_Witness ==
    /\ ret = Ret("memoryStore_UpdateRole", "ok")
    /\ \E b \in BindingNames, user \in UserNames, q \in Requests :
          /\ roleBindings[b].exists
          /\ Subject("User", user) \in Elems(roleBindings[b].Subjects)
          /\ roles[roleBindings[b].RoleRef].exists
          /\ Len(roles[roleBindings[b].RoleRef].Rules) = 2
          /\ Allowed(roleBindings, roles, storeFault, user, q)

(***************************************************************************)
(* Tables: DynamicStore's CreateDynamicTable, AlterDynamicTable and        *)
(* DropDynamicTable, and the TableManager's CreateTable and DropTable with *)
(* the entity_schemas registry.                                            *)
(***************************************************************************)
AlterBatch == 1000

Letters ==
    {"a", "b", "c", "d", "e", "f", "g", "h", "i", "j", "k", "l", "m",
     "n", "o", "p", "q", "r", "s", "t", "u", "v", "w", "x", "y", "z",
     "A", "B", "C", "D", "E", "F", "G", "H", "I", "J", "K", "L", "M",
     "N", "O", "P", "Q", "R", "S", "T", "U", "V", "W", "X", "Y", "Z"}

Digits == {"0", "1", "2", "3", "4", "5", "6", "7", "8", "9"}

\* the characters of the table names used as arguments
NameChars(n) ==
    CASE n = "t" -> <<"t">>
      [] n = "u" -> <<"u">>
      [] n = "users" -> <<"u", "s", "e", "r", "s">>
      [] n = "roles" -> <<"r", "o", "l", "e", "s">>
      [] n = "role_bindings" -> <<"r", "o", "l", "e", "_", "b", "i", "n", "d", "i", "n", "g", "s">>
      [] n = "_t" -> <<"_", "t">>
      [] OTHER   -> <<"1", "x">>

\* ^[a-zA-Z][a-zA-Z0-9_]{0,63}$
isValidIdentifier(identifier) ==
    /\ Len(identifier) >= 1
    /\ Len(identifier) <= 64
    /\ identifier[1] \in Letters
    /\ \A i \in 2..Len(identifier) : identifier[i] \in Letters \cup Digits \cup {"_"}

\* a bare name the engine parses in a statement
SqlIdentifier(identifier) ==
    /\ Len(identifier) >= 1
    /\ identifier[1] \in Letters \cup {"_"}
    /\ \A i \in 2..Len(identifier) : identifier[i] \in Letters \cup Digits \cup {"_"}

\* len(strings.Split(s, " "))
RECURSIVE SplitCount(_)
SplitCount(s) ==
    IF Len(s) = 0 THEN 1
    ELSE (IF s[1] = SP THEN 1 ELSE 0) + SplitCount(SubSeq(s, 2, Len(s)))

c_name == <<"n", "a", "m", "e">>
c_b == <<"b">>

FieldDef(name, type) == [name |-> name, type |-> type]

\* field types generateColumnDef has a case for
NUMERIC == <<"N", "U", "M", "E", "R", "I", "C">>
T_BOOLEAN == <<"B", "O", "O", "L", "E", "A", "N">>
JSON == <<"J", "S", "O", "N">>
ARRAY == <<"A", "R", "R", "A", "Y">>
ManagerTypes == {TEXT, NUMERIC, T_BOOLEAN, TIMESTAMP, JSON, ARRAY}

\* a call that is not DropColumn returns: no DropColumn frame is left
TablesReturn(op, val) ==
    /\ ret' = Ret(op, val)
    /\ dc' = IdleFrame
    /\ pre' = db
    /\ UNCHANGED <<pc, crudVars, rbacVars, verVars, facVars, qbVars, extVars>>

\* CREATE TABLE IF NOT EXISTS <n> (<cols>)
CreateIfNotExists(tables, n, cols) ==
    IF tables[n].exists THEN tables
    ELSE [tables EXCEPT ![n] = [exists |-> TRUE, cols |-> cols, rows |-> <<>>]]

CreateDynamicTable(n, opts) ==
    /\ pc = "idle"
    /\ IF ~isValidIdentifier(NameChars(n))
       THEN /\ TablesReturn("CreateDynamicTable", "invalid_name")
            /\ UNCHANGED db
       ELSE \/ /\ TablesReturn("CreateDynamicTable", "error")
               /\ UNCHANGED db
            \/ /\ db' = CreateIfNotExists(db, n, CoreCols \o opts.Fields)
               /\ \/ /\ Len(opts.Indexes) > 0
                     /\ TablesReturn("CreateDynamicTable", "index_error")
                  \/ TablesReturn("CreateDynamicTable", "ok")
    /\ UNCHANGED registry

DropDynamicTable(n) ==
    /\ pc = "idle"
    /\ IF ~SqlIdentifier(NameChars(n))
       THEN /\ TablesReturn("DropDynamicTable", "error")
            /\ UNCHANGED db
       ELSE \/ /\ TablesReturn("DropDynamicTable", "error")
               /\ UNCHANGED db
            \/ /\ db' = [db EXCEPT ![n] = NoTable]
               /\ TablesReturn("DropDynamicTable", "ok")
    /\ UNCHANGED registry

\* AlterDynamicTable with one change in the map
AlterDynamicTable(n, column, action) ==
    IF ~isValidIdentifier(NameChars(n))
    THEN /\ pc = "idle"
         /\ TablesReturn("AlterDynamicTable", "invalid_name")
         /\ UNCHANGED <<db, registry>>
    ELSE IF action \notin {"ADD", "DROP", "MODIFY"}
    THEN /\ pc = "idle"
         /\ TablesReturn("AlterDynamicTable", "unsupported_action")
         /\ UNCHANGED <<db, registry>>
    ELSE IF action = "ADD"
    THEN IF SplitCount(column) # 2
         THEN /\ pc = "idle"
              /\ TablesReturn("AlterDynamicTable", "invalid_column")
              /\ UNCHANGED <<db, registry>>
         ELSE AddColumn(n, column)
    ELSE IF action = "DROP"
    THEN DropColumnCall(n, column, AlterBatch)
    ELSE /\ pc = "idle"
         /\ TablesReturn("AlterDynamicTable", "modify_unsupported")
         /\ UNCHANGED <<db, registry>>

\* the engine rejects a CREATE TABLE that names a column twice
\* one turn of AlterDynamicTable's loop over the changes map, on the tables as
\* the turns before left them: what it returns and the tables it leaves (the
\* DROP is DropColumn with every statement succeeding)
ChangeOutcome(tables, n, column, action) ==
    LET tbl == tables[n]
        columns == [i \in 1..Len(tbl.cols) |->
                       tbl.cols[i].name \o <<SP>> \o tbl.cols[i].type]
        col == [name |-> SplitHead(column), type |-> SplitTail(column)]
        newColumns == NewColumns(columns, column, 1)
        Failed(val) == [tables |-> tables, val |-> val]
    IN IF action \notin {"ADD", "DROP", "MODIFY"} THEN Failed("unsupported_action")
       ELSE IF action = "MODIFY" THEN Failed("modify_unsupported")
       ELSE IF action = "ADD"
       THEN IF SplitCount(column) # 2 THEN Failed("invalid_column")
            ELSE IF ~tbl.exists \/ col.name \in ColNames(tbl) THEN Failed("failed")
            ELSE [tables |-> [tables EXCEPT
                                 ![n].cols = Append(@, col),
                                 ![n].rows = [i \in 1..Len(@) |->
                                                 @[i] @@ (col.name :> NULL)]],
                  val |-> "ok"]
       ELSE IF ~ColumnExists(columns, column) THEN Failed("not_found")
       ELSE IF tables[TempName(n)].exists THEN Failed("create_temp_failed")
       ELSE [tables |-> [tables EXCEPT
                            ![n].cols = ParseColumns(newColumns),
                            ![n].rows = ProjectAll(@, getColumnNames(newColumns))],
             val |-> "ok"]

\* AlterDynamicTable with two changes in the map (two different keys), visited
\* in the order the map's iteration yields them: first, then second
AlterDynamicTableMap(n, first, second) ==
    /\ pc = "idle"
    /\ first[1] # second[1]
    /\ IF ~isValidIdentifier(NameChars(n))
       THEN /\ TablesReturn("AlterDynamicTableMap", "invalid_name")
            /\ UNCHANGED db
       ELSE LET one == ChangeOutcome(db, n, first[1], first[2])
                two == ChangeOutcome(one.tables, n, second[1], second[2])
            IN IF one.val # "ok"
               THEN /\ TablesReturn("AlterDynamicTableMap", one.val)
                    /\ UNCHANGED db
               ELSE /\ TablesReturn("AlterDynamicTableMap", two.val)
                    /\ db' = two.tables
    /\ UNCHANGED registry

HasDuplicateColumn(cols) ==
    \E i, j \in 1..Len(cols) : i < j /\ cols[i].name = cols[j].name

\* generateCreateTableSQL: the core columns, name, then the schema's fields
ManagerColumns(schema) ==
    CoreCols \o <<FieldDef(c_name, TEXT)>> \o schema.Fields

\* TableManager.CreateTable when the engine itself does not fail: the
\* statements of the transaction all take effect, or one fails and none does
CreateTableOutcome(tables, reg, schema) ==
    IF schema.Name \in reg
    THEN [val |-> "AlreadyExists", db |-> tables, registry |-> reg]
    ELSE IF \E i \in 1..Len(schema.Fields) : schema.Fields[i].type \notin ManagerTypes
    THEN [val |-> "InvalidInput", db |-> tables, registry |-> reg]
    ELSE IF \/ ~SqlIdentifier(NameChars(schema.Name))
            \/ HasDuplicateColumn(ManagerColumns(schema))
    THEN [val |-> "StorageOperation", db |-> tables, registry |-> reg]
    ELSE [val |-> "ok",
          db |-> CreateIfNotExists(tables, schema.Name, ManagerColumns(schema)),
          registry |-> reg \cup {schema.Name}]

TableManager_CreateTable(schema) ==
    /\ pc = "idle"
    /\ LET out == CreateTableOutcome(db, registry, schema)
       IN  \/ /\ out.val = "ok"
              /\ TablesReturn("TableManager_CreateTable", "StorageOperation")
              /\ UNCHANGED <<db, registry>>
           \/ /\ db' = out.db
              /\ registry' = out.registry
              /\ TablesReturn("TableManager_CreateTable", out.val)

TableManager_DropTable(n) ==
    /\ pc = "idle"
    /\ IF n \notin registry
       THEN /\ TablesReturn("TableManager_DropTable", "NotFound")
            /\ UNCHANGED <<db, registry>>
       ELSE \/ /\ TablesReturn("TableManager_DropTable", "StorageOperation")
               /\ UNCHANGED <<db, registry>>
            \/ /\ db' = [db EXCEPT ![n] = NoTable]
               /\ registry' = registry \ {n}
               /\ TablesReturn("TableManager_DropTable", "ok")

TableArgs == {"t", "1x", "_t"}

TableOptions(fields, indexes) == [Fields |-> fields, Indexes |-> indexes]

TableOpts ==
    { TableOptions(<<FieldDef(c_a, INTEGER)>>, <<>>),
      TableOptions(<<FieldDef(c_a, INTEGER)>>, <<"idx_a">>) }

EntitySchema(name, fields) == [Name |-> name, Fields |-> fields]

c_username == <<"u", "s", "e", "r", "n", "a", "m", "e">>
c_email == <<"e", "m", "a", "i", "l">>
c_password_hash == <<"p", "a", "s", "s", "w", "o", "r", "d", "_", "h", "a", "s", "h">>
c_is_active == <<"i", "s", "_", "a", "c", "t", "i", "v", "e">>
c_last_login == <<"l", "a", "s", "t", "_", "l", "o", "g", "i", "n">>
c_annotations == <<"a", "n", "n", "o", "t", "a", "t", "i", "o", "n", "s">>
c_description == <<"d", "e", "s", "c", "r", "i", "p", "t", "i", "o", "n">>
c_rules == <<"r", "u", "l", "e", "s">>
c_role_ref == <<"r", "o", "l", "e", "_", "r", "e", "f">>
c_subjects == <<"s", "u", "b", "j", "e", "c", "t", "s">>

\* the built-in schemas, in the order Initialize creates them
CoreSchemas ==
    << EntitySchema("users",
           << FieldDef(c_username, TEXT), FieldDef(c_email, TEXT),
              FieldDef(c_password_hash, TEXT), FieldDef(c_is_active, T_BOOLEAN),
              FieldDef(c_last_login, TIMESTAMP), FieldDef(c_annotations, JSON) >>),
       EntitySchema("roles",
           << FieldDef(c_name, TEXT), FieldDef(c_description, TEXT),
              FieldDef(c_rules, JSON) >>),
       EntitySchema("role_bindings",
           << FieldDef(c_name, TEXT), FieldDef(c_role_ref, TEXT),
              FieldDef(c_subjects, JSON) >>) >>

\* the loop of Initialize: CreateTable for each schema, stopping at the
\* first one that returns an error
RECURSIVE InitializeFrom(_, _, _)
InitializeFrom(tables, reg, schemas) ==
    IF Len(schemas) = 0
    THEN [val |-> "ok", db |-> tables, registry |-> reg]
    ELSE LET out == CreateTableOutcome(tables, reg, Head(schemas))
         IN  IF out.val # "ok"
             THEN [val |-> "StorageOperation", db |-> out.db, registry |-> out.registry]
             ELSE InitializeFrom(out.db, out.registry, Tail(schemas))

\* TableManager.Initialize: AutoMigrate of the registry table, then the loop
TableManager_Initialize ==
    /\ pc = "idle"
    /\ LET out == InitializeFrom(db, registry, CoreSchemas)
       IN  /\ db' = out.db
           /\ registry' = out.registry
           /\ TablesReturn("TableManager_Initialize", out.val)

\* SQLManager.Initialize returns nil and does nothing
SQLManager_Initialize ==
    /\ pc = "idle"
    /\ TablesReturn("SQLManager_Initialize", "ok")
    /\ UNCHANGED <<db, registry>>

Schemas ==
    {EntitySchema(n, <<FieldDef(c_a, TEXT)>>) : n \in TableArgs}
        \cup {EntitySchema("t", <<FieldDef(c_a, INTEGER)>>)}

Changes ==
    { <<c_b \o <<SP>> \o INTEGER, "ADD">>, <<c_b, "ADD">>,
      <<c_a, "DROP">>, <<c_zz, "DROP">>, <<c_a, "MODIFY">>, <<c_a, "RENAME">> }

InitTables ==
    /\ db = [x \in TableNames |-> NoTable]
    /\ registry = {}
    /\ pc = "idle"
    /\ dc = IdleFrame
    /\ ret = Ret("none", "none")
    /\ pre = db
    /\ CrudIdle
    /\ RbacIdle
    /\ VerIdle
    /\ ExtIdle
    /\ FacIdle

NextTables ==
    \/ \E n \in TableArgs, opts \in TableOpts : CreateDynamicTable(n, opts)
    \/ \E n \in TableArgs : DropDynamicTable(n)
    \/ \E n \in TableArgs, change \in Changes : AlterDynamicTable(n, change[1], change[2])
    \/ \E n \in TableArgs, first \in Changes, second \in Changes :
          AlterDynamicTableMap(n, first, second)
    \/ CreateTemp
    \/ CopyBatch
    \/ DropSource
    \/ RenameTemp
    \/ \E schema \in Schemas : TableManager_CreateTable(schema)
    \/ \E n \in TableArgs : TableManager_DropTable(n)
    \/ TableManager_Initialize
    \/ SQLManager_Initialize

SpecTables == InitTables /\ [][NextTables]_vars

\* C10: between calls, a table named n exists exactly when the registry
\* holds a row named n.
C10_TableIffRegistryRow ==
    pc = "idle" => \A n \in TableNames : db[n].exists <=> n \in registry

\* C11: a create_table call that fails leaves no effect: the tables are as
\* they were before the call, and the registry holds no row the call added.
C11_FailedCreateLeavesNothing ==
    (/\ ret.op \in {"CreateDynamicTable", "TableManager_CreateTable"}
     /\ ret.val # "ok")
        => db = pre

\* DynamicStore.TableExists: a table of that name in sqlite_master
DynamicStore_TableExists(tables, n) == tables[n].exists

\* TableManager.TableExists: count of registry rows of that name > 0
TableManager_TableExists(reg, n) == n \in reg

\* outcomes that are a failure of the storage engine itself
DriverFaults == {"error", "index_error", "StorageOperation"}

\* C12: after a create_table that succeeds table_exists is true, and a
\* create_table for a name whose table exists returns AlreadyExists and
\* leaves the tables unchanged.
C12_RepeatedCreateAlreadyExists ==
    [][/\ \A n \in TableArgs, opts \in TableOpts :
            (CreateDynamicTable(n, opts) /\ ret'.val \notin DriverFaults) =>
                /\ ret'.val = "ok" => DynamicStore_TableExists(db', n)
                /\ (isValidIdentifier(NameChars(n)) /\ DynamicStore_TableExists(db, n))
                      => (ret'.val = "AlreadyExists" /\ db' = db)
       /\ \A schema \in Schemas :
            (TableManager_CreateTable(schema) /\ ret'.val \notin DriverFaults) =>
                /\ ret'.val = "ok" => TableManager_TableExists(registry', schema.Name)
                /\ TableManager_TableExists(registry, schema.Name)
                      => (ret'.val = "AlreadyExists" /\ db' = db)]_vars

\* C13: an initialize() that follows an initialize() succeeds and leaves
\* the tables, their rows and the registry as the first call left them.
C13_InitializeIdempotent ==
    [][(/\ ret.op \in {"TableManager_Initialize", "SQLManager_Initialize"}
        /\ TableManager_Initialize \/ SQLManager_Initialize)
          => (ret'.val = "ok" /\ db' = db /\ registry' = registry)]_vars

\* C15: an update with an empty patch of an existing alive row succeeds,
\* leaves every column other than updated_at as it was and strictly advances
\* updated_at.
C15_EmptyPatchAdvancesUpdatedAt ==
    [][\A t \in CrudTables, id \in Ids :
          (/\ db[t].exists
           /\ AffectedLive(db[t].rows, id) # {}
           /\ DynamicUpdate(t, id, EmptyMap))
            => /\ ret'.val = "ok"
               /\ Len(db'[t].rows) = Len(db[t].rows)
               /\ \A i \in 1..Len(db[t].rows) :
                     /\ \A c \in ColNames(db[t]) \ {c_updated_at} :
                           db'[t].rows[i][c] = db[t].rows[i][c]
                     /\ i \in AffectedLive(db[t].rows, id)
                           => db'[t].rows[i][c_updated_at] > db[t].rows[i][c_updated_at]]_vars

(***************************************************************************)
(* The SQLiteDynamicStore over gorm: Create, Update and the validation of  *)
(* a data map against the schema read from the registry.                   *)
(***************************************************************************)
c_age == <<"a", "g", "e">>

\* a Go value of a data map: its dynamic type, whether its text reads as a
\* number, and that number (or a code for a text that is no number)
GoInt(n) == [kind |-> "int", numeric |-> TRUE, v |-> n]
GoFloat(n) == [kind |-> "float64", numeric |-> TRUE, v |-> n]
GoString(numeric, n) == [kind |-> "string", numeric |-> numeric, v |-> n]
GoNil == [kind |-> "nil", numeric |-> FALSE, v |-> 0]

Converted(ok, value) == [ok |-> ok, value |-> value]

\* strings stay, anything else is formatted with %v
toString(value) ==
    IF value.kind = "string"
    THEN Converted(TRUE, value)
    ELSE Converted(TRUE, GoString(value.numeric, value.v))

\* numbers stay, a string goes through strconv.ParseFloat
toNumber(value) ==
    IF value.kind \in {"int", "float64"}
    THEN Converted(TRUE, value)
    ELSE IF value.kind = "string" /\ value.numeric
    THEN Converted(TRUE, GoFloat(value.v))
    ELSE Converted(FALSE, value)

convertValueToType(value, fieldType) ==
    CASE fieldType = TEXT -> toString(value)
      [] fieldType = NUMERIC -> toNumber(value)
      [] OTHER -> Converted(FALSE, value)

SchemaField(name, type, required) ==
    [name |-> name, type |-> type, required |-> required]

\* getCoreEntityFields
CoreEntityFields ==
    << SchemaField(c_id, TEXT, TRUE),
       SchemaField(c_created_at, TIMESTAMP, TRUE),
       SchemaField(c_updated_at, TIMESTAMP, TRUE),
       SchemaField(c_deleted_at, TIMESTAMP, FALSE) >>

\* the fields of the registry row of the table: the core fields, a required
\* string and a number
StoreFields ==
    CoreEntityFields \o
        << SchemaField(c_name, TEXT, TRUE), SchemaField(c_age, NUMERIC, FALSE) >>

StoreCols == CoreCols \o << FieldDef(c_name, TEXT), FieldDef(c_age, NUMERIC) >>

UserFields == {c_name, c_age}

FieldNames(fields) == {fields[i].name : i \in 1..Len(fields)}

\* ValidateData: a required field is absent, or a present value does not
\* convert to the type of its field. The core fields hold an id and
\* time.Time values, which always convert.
ValidateData(data, fields) ==
    \A i \in 1..Len(fields) :
        /\ fields[i].required => fields[i].name \in DOMAIN data
        /\ (fields[i].name \in DOMAIN data /\ fields[i].name \in UserFields)
              => convertValueToType(data[fields[i].name], fields[i].type).ok

\* what the engine stores for a value bound to a column of this declared type
Affinity(value, type) ==
    IF type = TEXT /\ value.kind # "nil"
    THEN GoString(value.numeric, value.v)
    ELSE IF type = NUMERIC /\ value.numeric
    THEN GoInt(value.v)
    ELSE value

\* the row INSERT INTO t (<fields present in data>) VALUES (...) adds
StoreRow(fields, data) ==
    [c \in FieldNames(fields) |->
        LET f == CHOOSE g \in {fields[i] : i \in 1..Len(fields)} : g.name = c
        IN  IF c \in UserFields
            THEN IF c \in DOMAIN data THEN Affinity(data[c], f.type) ELSE GoNil
            ELSE IF c \in DOMAIN data THEN data[c] ELSE NULL]

\* SQLiteDynamicStore.Create; the id it put into data is left in res.key
SQLiteDynamicStore_Create(t, data) ==
    /\ pc = "idle"
    /\ \E uuid \in Ids :
          /\ IF c_id \in DOMAIN data
             THEN uuid = data[c_id]
             ELSE ~HasId(db[t].rows, uuid)
          /\ LET filled == ((c_created_at :> now) @@ (c_updated_at :> now)
                               @@ (c_id :> uuid)) @@ data
                 \* data wins over the three defaults only where it has the key
                 full == [c \in DOMAIN filled |->
                             IF c \in DOMAIN data THEN data[c] ELSE filled[c]]
                 known == [c \in DOMAIN full \cap FieldNames(StoreFields) |-> full[c]]
             IN  IF t \notin registry
                 THEN /\ ret' = Ret("SQLiteDynamicStore_Create", "not_found")
                      /\ res' = NoRes
                      /\ UNCHANGED <<db, deleted>>
                 ELSE IF ~ValidateData(full, StoreFields)
                 THEN /\ ret' = Ret("SQLiteDynamicStore_Create", "InvalidInput")
                      /\ res' = Read(full[c_id], <<>>)
                      /\ UNCHANGED <<db, deleted>>
                 ELSE IF ~db[t].exists \/ HasId(db[t].rows, full[c_id])
                 THEN /\ ret' = Ret("SQLiteDynamicStore_Create", "error")
                      /\ res' = Read(full[c_id], <<>>)
                      /\ UNCHANGED <<db, deleted>>
                 ELSE /\ db' = [db EXCEPT ![t].rows = Append(@, StoreRow(StoreFields, known))]
                      /\ deleted' = deleted \ {full[c_id]}
                      /\ ret' = Ret("SQLiteDynamicStore_Create", "ok")
                      /\ res' = Read(full[c_id], <<>>)
    /\ UNCHANGED <<registry, pc, dc, pre, now, rbacVars, verVars, facVars, qbVars, extVars>>

\* the assignments of Updates(converted): the keys of data that are fields
\* of the schema, each converted to the type of its field
ConvertedPatch(data, fields) ==
    [c \in DOMAIN data \cap FieldNames(fields) |->
        LET f == CHOOSE g \in {fields[i] : i \in 1..Len(fields)} : g.name = c
        IN  IF c \in UserFields
            THEN Affinity(convertValueToType(data[c], f.type).value, f.type)
            ELSE data[c]]

PatchConverts(data, fields) ==
    \A i \in 1..Len(fields) :
        (fields[i].name \in DOMAIN data /\ fields[i].name \in UserFields)
            => convertValueToType(data[fields[i].name], fields[i].type).ok

StoreUpdatedRow(row, patch) ==
    [c \in DOMAIN row |-> IF c \in DOMAIN patch THEN patch[c] ELSE row[c]]

\* SQLiteDynamicStore.Update: UPDATE t SET <converted> WHERE id = ?
SQLiteDynamicStore_Update(t, id, data) ==
    /\ pc = "idle"
    /\ LET stamped == (c_updated_at :> now) @@ data
           patch == ConvertedPatch(stamped, StoreFields)
       IN  IF t \notin registry
           THEN /\ ret' = Ret("SQLiteDynamicStore_Update", "not_found")
                /\ UNCHANGED db
           ELSE IF ~PatchConverts(stamped, StoreFields)
           THEN /\ ret' = Ret("SQLiteDynamicStore_Update", "InvalidInput")
                /\ UNCHANGED db
           ELSE IF ~db[t].exists
           THEN /\ ret' = Ret("SQLiteDynamicStore_Update", "StorageOperation")
                /\ UNCHANGED db
           ELSE IF Affected(db[t].rows, id) = {}
           THEN /\ ret' = Ret("SQLiteDynamicStore_Update", "not_found")
                /\ UNCHANGED db
           ELSE /\ db' = [db EXCEPT ![t].rows =
                            [i \in 1..Len(@) |->
                                IF @[i][c_id] = id
                                THEN StoreUpdatedRow(@[i], patch) ELSE @[i]]]
                /\ ret' = Ret("SQLiteDynamicStore_Update", "ok")
    /\ res' = NoRes
    /\ UNCHANGED <<registry, pc, dc, pre, now, deleted, rbacVars, verVars, facVars, qbVars, extVars>>

\* a text that is no number, and the text "1"
Word == GoString(FALSE, 0)

StoreCreateData ==
    { (c_name :> Word) @@ (c_age :> GoInt(1)),
      (c_id :> 1) @@ (c_name :> Word),
      (c_id :> 2) @@ (c_name :> Word) @@ (c_age :> GoString(TRUE, 1)),
      (c_id :> 1) @@ (c_name :> GoInt(1)),
      (c_id :> 2) @@ (c_age :> GoInt(1)),
      (c_id :> 2) @@ (c_name :> Word) @@ (c_age :> Word),
      (c_name :> Word) @@ (c_zz :> GoInt(1)) }

StoreUpdateData ==
    { EmptyMap, c_age :> GoInt(2), c_age :> Word, c_zz :> GoInt(1) }

\* a row for DynamicInsert that carries no id (one such row at a time)
StoreInsertData == { (c_name :> Word) @@ (c_age :> GoInt(1)) }

InitStore ==
    /\ db = [x \in TableNames |->
                IF x = "t"
                THEN [exists |-> TRUE, cols |-> StoreCols, rows |-> <<>>]
                ELSE NoTable]
    /\ registry = {"t"}
    /\ pc = "idle"
    /\ dc = IdleFrame
    /\ ret = Ret("none", "none")
    /\ pre = db
    /\ CrudIdle
    /\ RbacIdle
    /\ VerIdle
    /\ ExtIdle
    /\ FacIdle

NextStore ==
    \/ \E t \in CrudTables, data \in StoreCreateData : SQLiteDynamicStore_Create(t, data)
    \/ \E t \in CrudTables, id \in Ids, data \in StoreUpdateData :
          SQLiteDynamicStore_Update(t, id, data)
    \/ \E t \in CrudTables, id \in Ids : SQLiteDynamicStore_Get(t, id)
    \/ \E t \in CrudTables, id \in Ids : SQLiteDynamicStore_Delete(t, id)
    \/ \E t \in CrudTables, data \in StoreInsertData :
          ~HasId(db[t].rows, NULL) /\ DynamicInsert(t, data)
    \/ Tick

SpecStore == InitStore /\ [][NextStore]_vars

\* equal after type coercion: the same number, or the same text
SameAfterCoercion(stored, supplied) ==
    stored.numeric = supplied.numeric /\ stored.v = supplied.v

\* the mapping a get of this id returns contains every key of data with an
\* equal value
RoundTrip(rows, id, data) ==
    /\ Len(rows) > 0
    /\ \A c \in DOMAIN data :
          /\ c \in DOMAIN rows[1]
          /\ IF c = c_id THEN rows[1][c] = data[c] /\ data[c] = id
             ELSE SameAfterCoercion(rows[1][c], data[c])

\* C16: after an insert of a valid row succeeds, a get of its id returns a
\* mapping with every supplied key and an equal value (after coercion); a row
\* supplied without an id is retrievable under the id insert assigned.
C16_InsertThenGetRoundTrip ==
    [][/\ \A t \in CrudTables, data \in StoreCreateData :
            (/\ SQLiteDynamicStore_Create(t, data)
             /\ DOMAIN data \subseteq FieldNames(StoreFields)
             /\ ret'.val = "ok")
                => RoundTrip(RowsWith(db'[t].rows, res'.key), res'.key,
                             (c_id :> res'.key) @@ data)
       /\ \A t \in CrudTables, data \in StoreInsertData :
            (/\ DynamicInsert(t, data)
             /\ ret'.val = "ok")
                => \E id \in Ids :
                      LET got == DynamicSelectRows(db'[t], c_id :> id)
                      IN  /\ RoundTrip(got, id, data)
                          /\ got[1] = db'[t].rows[Len(db'[t].rows)]]_vars

\* a value of the type of its field: a string for a string field; a number,
\* or a text that reads as one, for a number field
Conforms(value, type) ==
    CASE type = TEXT -> value.kind = "string"
      [] type = NUMERIC -> value.numeric
      [] OTHER -> FALSE

\* a required field is absent from the row, or a supplied value does not
\* conform to the type of its field
InvalidRow(data, fields) ==
    \E i \in 1..Len(fields) :
        /\ fields[i].name \in UserFields
        /\ \/ fields[i].required /\ fields[i].name \notin DOMAIN data
           \/ /\ fields[i].name \in DOMAIN data
              /\ ~Conforms(data[fields[i].name], fields[i].type)

\* C17: an insert of a row that lacks a required field, or carries a value
\* that does not conform to the type of its field, returns InvalidInput and
\* inserts no row.
C17_InvalidRowRejected ==
    [][\A t \in CrudTables, data \in StoreCreateData :
          (/\ t \in registry
           /\ InvalidRow(data, StoreFields)
           /\ SQLiteDynamicStore_Create(t, data))
            => (ret'.val = "InvalidInput" /\ db' = db)]_vars

\* C18: an insert whose id equals that of an existing alive row fails with
\* AlreadyExists, not with the driver's error, and leaves the rows unchanged.
C18_DuplicateIsAlreadyExists ==
    [][\A t \in CrudTables, data \in InsertData :
          (/\ db[t].exists
           /\ DOMAIN data \subseteq ColNames(db[t])
           /\ c_id \in DOMAIN data
           /\ AffectedLive(db[t].rows, data[c_id]) # {}
           /\ DynamicInsert(t, data))
            => (ret'.val = "AlreadyExists" /\ db' = db)]_vars

\* C19: an insert that reuses the id of a soft-deleted row, when no alive row
\* has that id, succeeds.
C19_SoftDeletedIdReusable ==
    [][\A t \in CrudTables, data \in InsertData :
          (/\ db[t].exists
           /\ DOMAIN data \subseteq ColNames(db[t])
           /\ c_id \in DOMAIN data
           /\ Affected(db[t].rows, data[c_id]) # {}
           /\ AffectedLive(db[t].rows, data[c_id]) = {}
           /\ DynamicInsert(t, data))
            => (/\ ret'.val = "ok"
                /\ AffectedLive(db'[t].rows, data[c_id]) # {})]_vars

\* C14: an update or a delete of an id returns NotFound exactly when no row
\* is affected (no row has the id; for a delete, no alive row has it), and
\* then no row is changed: a delete of an id that is already soft-deleted
\* returns NotFound and leaves its deleted_at as it was.
C14_NotFoundIffNoRowAffected ==
    [][\A t \in CrudTables, id \in Ids :
          /\ \A data \in UpdateData :
                (UpdateAccepted(db[t], data) /\ DynamicUpdate(t, id, data))
                    => /\ ret'.val = "not_found" <=> Affected(db[t].rows, id) = {}
                       /\ ret'.val = "not_found" => db' = db
          /\ (db[t].exists /\ (DynamicDelete(t, id) \/ SQLiteDynamicStore_Delete(t, id)))
                => /\ ret'.val = "not_found" <=> AffectedLive(db[t].rows, id) = {}
                   /\ ret'.val = "not_found" => db' = db]_vars

(***************************************************************************)
(* Schema versions: TrackSchemaVersion, and GetSchemaVersions with its     *)
(* version cache.                                                          *)
(***************************************************************************)
MaxTracked == 3
MaxClock == 2

\* the default expiration of the cache, in ticks of the process clock
VersionTTL == 1

SchemaNames == {"s1", "s2"}
VersionChanges == {"Initial version"}

SchemaVersion(name, version, changes, created_at) ==
    [schema_name |-> name, version |-> version, changes |-> changes,
     created_at |-> created_at]

NoEntry == [found |-> FALSE, value |-> <<>>, expiration |-> 0]
NoListed == [schema |-> "", versions |-> <<>>, hit |-> FALSE]

\* ... FROM schema_versions WHERE schema_name = ?
RowsOfSchema(rows, name) ==
    LET Hit(r) == r.schema_name = name IN SelectSeq(rows, Hit)

\* COALESCE(MAX(version), 0)
MaxVersion(rows) ==
    IF Len(rows) = 0 THEN 0
    ELSE LET vs == {rows[i].version : i \in 1..Len(rows)}
         IN  CHOOSE m \in vs : \A v \in vs : m >= v

\* the count of all rows, whatever their schema, plus one
NextVersionByCount(rows, name) == Len(rows) + 1

\* (SELECT COALESCE(MAX(version), 0) + 1 FROM schema_versions WHERE schema_name = ?)
NextVersion(rows, name) == MaxVersion(RowsOfSchema(rows, name)) + 1

\* ORDER BY version DESC
RECURSIVE OrderByVersionDesc(_)
OrderByVersionDesc(rows) ==
    IF Len(rows) = 0 THEN <<>>
    ELSE LET i == CHOOSE k \in 1..Len(rows) :
                      \A j \in 1..Len(rows) : rows[k].version >= rows[j].version
         IN  <<rows[i]>> \o
                 OrderByVersionDesc(SubSeq(rows, 1, i - 1) \o SubSeq(rows, i + 1, Len(rows)))

\* a Get that never looks at the expiration of the entry
CacheGetUnexpiring(cache, name, t) == cache[name].found

\* cache.Get: the entry is there and its expiration has not passed
CacheGet(cache, name, t) ==
    cache[name].found /\ ~(t > cache[name].expiration)

\* an entry that lives one tick longer than the default expiration
LongerExpiration(t) == t + VersionTTL + 1

\* cache.Set with cache.DefaultExpiration: the entry expires one TTL from now
DefaultExpiration(t) == t + VersionTTL

VersionsReturn(op, val) ==
    /\ ret' = Ret(op, val)
    /\ UNCHANGED <<db, registry, pc, dc, pre, crudVars, rbacVars,
                   trackers, writer, facVars, qbVars, extVars>>

TrackSchemaVersion(name, changes) ==
    /\ pc = "idle"
    /\ \/ /\ VersionsReturn("TrackSchemaVersion", "error")
          /\ UNCHANGED <<schemaVersions, tracked>>
       \/ /\ Len(schemaVersions) < MaxTracked
          /\ schemaVersions' = Append(schemaVersions,
                 SchemaVersion(name, NextVersion(schemaVersions, name), changes,
                               cacheClock))
          /\ tracked' = [tracked EXCEPT ![name] = @ + 1]
          /\ VersionsReturn("TrackSchemaVersion", "ok")
    /\ listed' = NoListed
    /\ UNCHANGED <<versionCache, cacheClock>>

GetSchemaVersions(name) ==
    /\ pc = "idle"
    /\ IF CacheGet(versionCache, name, cacheClock)
       THEN /\ listed' = [schema |-> name, versions |-> versionCache[name].value,
                          hit |-> TRUE]
            /\ VersionsReturn("GetSchemaVersions", "ok")
            /\ UNCHANGED versionCache
       ELSE \/ /\ listed' = NoListed
               /\ VersionsReturn("GetSchemaVersions", "error")
               /\ UNCHANGED versionCache
            \/ LET versions == OrderByVersionDesc(RowsOfSchema(schemaVersions, name))
               IN  /\ versionCache' = [versionCache EXCEPT ![name] =
                          [found |-> TRUE, value |-> versions,
                           expiration |-> DefaultExpiration(cacheClock)]]
                   /\ listed' = [schema |-> name, versions |-> versions, hit |-> FALSE]
                   /\ VersionsReturn("GetSchemaVersions", "ok")
    /\ UNCHANGED <<schemaVersions, cacheClock, tracked>>

\* the janitor of the cache removes the entries whose expiration has passed
DeleteExpired ==
    /\ \E name \in SchemaNames :
          versionCache[name].found /\ cacheClock > versionCache[name].expiration
    /\ versionCache' = [name \in SchemaNames |->
          IF versionCache[name].found /\ cacheClock > versionCache[name].expiration
          THEN NoEntry ELSE versionCache[name]]
    /\ UNCHANGED <<db, registry, pc, dc, ret, pre, crudVars, rbacVars,
                   schemaVersions, cacheClock, listed, tracked,
                   trackers, writer, facVars, qbVars, extVars>>

\* the process clock moves on
Advance ==
    /\ cacheClock < MaxClock
    /\ cacheClock' = cacheClock + 1
    /\ UNCHANGED <<db, registry, pc, dc, ret, pre, crudVars, rbacVars,
                   schemaVersions, versionCache, listed, tracked,
                   trackers, writer, facVars, qbVars, extVars>>

InitVersions ==
    /\ db = [x \in TableNames |-> NoTable]
    /\ registry = {}
    /\ pc = "idle"
    /\ dc = IdleFrame
    /\ ret = Ret("none", "none")
    /\ pre = db
    /\ CrudIdle
    /\ RbacIdle
    /\ schemaVersions = <<>>
    /\ versionCache = [name \in SchemaNames |-> NoEntry]
    /\ cacheClock = 0
    /\ listed = NoListed
    /\ tracked = [name \in SchemaNames |-> 0]
    /\ trackers = [p \in {} |-> 0]
    /\ writer = "none"
    /\ FacIdle
    /\ ExtIdle

NextVersions ==
    \/ \E name \in SchemaNames, changes \in VersionChanges :
          TrackSchemaVersion(name, changes)
    \/ \E name \in SchemaNames : GetSchemaVersions(name)
    \/ DeleteExpired
    \/ Advance

SpecVersions == InitVersions /\ [][NextVersions]_vars

\* the version numbers of a sequence of rows, in its order
VersionNumbers(rows) == [i \in 1..Len(rows) |-> rows[i].version]

\* C20: the rows of each schema carry, in insertion order, the versions
\* 1, 2, ..., k, where k is the number of TrackSchemaVersion calls for that
\* schema that succeeded; a GetSchemaVersions that is not served from the
\* cache returns the rows of its schema with the versions k, k-1, ..., 1.
C20_VersionsCountUp ==
    /\ \A name \in SchemaNames :
          VersionNumbers(RowsOfSchema(schemaVersions, name))
              = [i \in 1..tracked[name] |-> i]
    /\ (ret = Ret("GetSchemaVersions", "ok") /\ ~listed.hit)
          => /\ \A i \in 1..Len(listed.versions) :
                    listed.versions[i].schema_name = listed.schema
             /\ VersionNumbers(listed.versions)
                    = [i \in 1..tracked[listed.schema] |->
                          tracked[listed.schema] + 1 - i]

\* two versions of one schema and one of the other were tracked, and the two
\* were listed from the database
C20_Witness ==
    /\ ret = Ret("GetSchemaVersions", "ok")
    /\ ~listed.hit
    /\ tracked[listed.schema] = 2
    /\ Len(listed.versions) = 2
    /\ \E name \in SchemaNames \ {listed.schema} : tracked[name] = 1
    /\ schemaVersions[1].schema_name = listed.schema
    /\ schemaVersions[2].schema_name # listed.schema

(***************************************************************************)
(* Concurrent TrackSchemaVersion calls.  Each call executes one INSERT     *)
(* statement on its own pooled connection; the engine runs a write         *)
(* statement under the database write lock, which it takes before the      *)
(* statement reads (the version subquery) and releases when the statement  *)
(* has finished.                                                           *)
(***************************************************************************)
Trackers == {"p1", "p2"}

IdleTracker == [pc |-> "idle", schema |-> "", version |-> 0]

\* a statement begins whether or not another connection is writing
WriteLockIgnored(holder) == TRUE

\* a write statement begins only when no other connection holds the write lock
WriteLockFree(holder) == holder = "none"

TrackerFrame ==
    UNCHANGED <<db, registry, pc, dc, pre, crudVars, rbacVars, facVars, qbVars, extVars,
                versionCache, cacheClock, listed>>

\* a goroutine calls TrackSchemaVersion(name, _): ExecContext takes a connection
TrackCall(p, name) ==
    /\ pc = "idle"
    /\ trackers[p].pc = "idle"
    /\ Len(schemaVersions) < MaxTracked
    /\ trackers' = [trackers EXCEPT ![p] =
           [pc |-> "called", schema |-> name, version |-> 0]]
    /\ UNCHANGED <<ret, schemaVersions, tracked, writer>>
    /\ TrackerFrame

\* the statement begins: write lock, then the version subquery
TrackBegin(p) ==
    /\ trackers[p].pc = "called"
    /\ WriteLockFree(writer)
    /\ writer' = p
    /\ trackers' = [trackers EXCEPT ![p].pc = "writing",
           ![p].version = NextVersion(schemaVersions, trackers[p].schema)]
    /\ UNCHANGED <<ret, schemaVersions, tracked>>
    /\ TrackerFrame

\* the lock stayed busy for the whole busy timeout: "database is locked"
TrackBusy(p) ==
    /\ trackers[p].pc = "called"
    /\ writer # "none"
    /\ trackers' = [trackers EXCEPT ![p] = IdleTracker]
    /\ ret' = Ret("TrackSchemaVersion", "error")
    /\ UNCHANGED <<schemaVersions, tracked, writer>>
    /\ TrackerFrame

\* the row is inserted (or the insert fails), the statement ends, err is returned
TrackInsert(p) ==
    /\ trackers[p].pc = "writing"
    /\ \/ /\ schemaVersions' = Append(schemaVersions,
                 SchemaVersion(trackers[p].schema, trackers[p].version,
                               "Initial version", cacheClock))
          /\ tracked' = [tracked EXCEPT ![trackers[p].schema] = @ + 1]
          /\ ret' = Ret("TrackSchemaVersion", "ok")
       \/ /\ ret' = Ret("TrackSchemaVersion", "error")
          /\ UNCHANGED <<schemaVersions, tracked>>
    /\ writer' = IF writer = p THEN "none" ELSE writer
    /\ trackers' = [trackers EXCEPT ![p] = IdleTracker]
    /\ TrackerFrame

InitTrackers ==
    /\ db = [x \in TableNames |-> NoTable]
    /\ registry = {}
    /\ pc = "idle"
    /\ dc = IdleFrame
    /\ ret = Ret("none", "none")
    /\ pre = db
    /\ CrudIdle
    /\ RbacIdle
    /\ FacIdle
    /\ ExtIdle
    /\ schemaVersions = <<>>
    /\ versionCache = [name \in SchemaNames |-> NoEntry]
    /\ cacheClock = 0
    /\ listed = NoListed
    /\ tracked = [name \in SchemaNames |-> 0]
    /\ trackers = [p \in Trackers |-> IdleTracker]
    /\ writer = "none"

NextTrackers ==
    \/ \E p \in Trackers, name \in SchemaNames : TrackCall(p, name)
    \/ \E p \in Trackers : TrackBegin(p)
    \/ \E p \in Trackers : TrackBusy(p)
    \/ \E p \in Trackers : TrackInsert(p)

SpecTrackers == InitTrackers /\ [][NextTrackers]_vars

C22_CacheServesWithinTTL ==
    [][\A name \in SchemaNames : GetSchemaVersions(name) =>
          /\ (versionCache[name].found /\ cacheClock <= versionCache[name].expiration)
                => /\ ret'.val = "ok"
                   /\ listed'.hit
                   /\ listed'.versions = versionCache[name].value
                   /\ versionCache' = versionCache
          /\ (versionCache[name].found /\ cacheClock > versionCache[name].expiration)
                => /\ ~listed'.hit
                   /\ ret'.val = "ok" =>
                         /\ listed'.versions
                               = OrderByVersionDesc(RowsOfSchema(schemaVersions, name))
                         /\ versionCache'[name].found
                         /\ versionCache'[name].value = listed'.versions
                         /\ versionCache'[name].expiration = cacheClock + VersionTTL
          /\ \A i \in 1..Len(listed'.versions) :
                listed'.versions[i].schema_name = name
          /\ \A other \in SchemaNames \ {name} :
                versionCache'[other] = versionCache[other]
      ]_vars

\* an entry filled at time 0 has expired, a row was tracked since, and the list
\* after the expiry read the database and refilled the entry, while the other
\* schema's entry is still in the cache
C22_Witness ==
    /\ ret = Ret("GetSchemaVersions", "ok")
    /\ ~listed.hit
    /\ cacheClock > VersionTTL
    /\ Len(listed.versions) >= 1
    /\ versionCache[listed.schema].expiration = cacheClock + VersionTTL
    /\ \E other \in SchemaNames \ {listed.schema} :
          /\ versionCache[other].found
          /\ Len(versionCache[other].value) >= 1

\* the rows among all that were stored before time t
StoredBefore(all, t) ==
    LET Old(r) == r.created_at < t IN SelectSeq(all, Old)

\* result is what the newest-first list all was when it was shorter: its tail
IsEarlierContent(result, all) ==
    /\ Len(result) <= Len(all)
    /\ result = SubSeq(all, Len(all) - Len(result) + 1, Len(all))

\* C23: TrackSchemaVersion leaves the version cache as it is; every list a
\* GetSchemaVersions(s) returns is the database content for s of some moment
\* no more than one TTL before the call (an earlier content that holds every
\* row stored more than a TTL ago); and when the entry of s has been in the
\* cache for more than a TTL the list is the whole present content.
C23_BoundedStaleness ==
    [][/\ \A name \in SchemaNames, changes \in VersionChanges :
             TrackSchemaVersion(name, changes) => versionCache' = versionCache
       /\ \A name \in SchemaNames :
             (GetSchemaVersions(name) /\ ret'.val = "ok") =>
                LET all == OrderByVersionDesc(RowsOfSchema(schemaVersions, name))
                IN  /\ IsEarlierContent(listed'.versions, all)
                    /\ Len(StoredBefore(all, cacheClock - VersionTTL))
                          <= Len(listed'.versions)
                    /\ (versionCache[name].found
                          /\ cacheClock > versionCache[name].expiration)
                          => listed'.versions = all
      ]_vars

\* a list served from the cache is behind the database: a version was tracked
\* after the entry was filled and the entry has not expired
C23_Witness ==
    /\ ret = Ret("GetSchemaVersions", "ok")
    /\ listed.hit
    /\ cacheClock = versionCache[listed.schema].expiration
    /\ Len(listed.versions) >= 1
    /\ Len(RowsOfSchema(schemaVersions, listed.schema)) > Len(listed.versions)

\* C24: an AlterDynamicTable with one change does what the change asks: an ADD
\* that succeeds makes the column a column of the table; a DROP that succeeds
\* removes the column and keeps every row; a MODIFY on a valid table name
\* returns the NotImplemented error and leaves the database as it was; any
\* other action is rejected and leaves the database as it was.  (MODIFY as the
\* code has it returns "modify_unsupported", a plain fmt.Errorf error.)
C24_AlterAppliesEachChange ==
    /\ [][\A n \in TableArgs, change \in Changes :
             AlterDynamicTable(n, change[1], change[2]) =>
                /\ (change[2] = "ADD" /\ ret'.val = "ok")
                      => SplitHead(change[1]) \in ColNames(db'[n])
                /\ (change[2] = "MODIFY" /\ isValidIdentifier(NameChars(n)))
                      => /\ ret'.val = "NotImplemented"
                         /\ db' = db
                /\ change[2] \notin {"ADD", "DROP", "MODIFY"}
                      => /\ ret'.val \notin {"ok", "none"}
                         /\ db' = db
         ]_vars
    /\ [](( /\ DropDone
            /\ ret.val = "ok"
            /\ dc.column \in ColNames(pre[dc.table]))
              => DropPreserved)

\* C25: a DeleteRole(name) to which the store returns the role and a listing
\* with a binding whose role reference is name returns InvalidInput with a
\* reason naming such a binding; whatever the store answers, a DeleteRole of
\* a role some binding references leaves the roles as they were (the role
\* stays retrievable), and a DeleteRole that removes a role removes only the
\* named role, which no binding references.
C25_ReferencedRoleNotDeleted ==
    [][\A name \in RoleNames : DeleteRole(name) =>
          LET refs == {b \in BindingNames : roleBindings[b].exists
                                             /\ roleBindings[b].RoleRef = name}
          IN  /\ (roles[name].exists /\ refs # {}
                     /\ name \notin storeFault /\ ListFault \notin storeFault)
                    => /\ ret'.op = "DeleteRole"
                       /\ ret'.val = "InvalidInput"
                       /\ ret'.reason \in refs
              /\ (roles[name].exists /\ refs # {})
                    => /\ roles' = roles
                       /\ ret'.val # "ok"
              /\ roles' # roles
                    => /\ refs = {}
                       /\ ret'.val = "ok"
                       /\ roles' = [roles EXCEPT ![name] = NoRole]
      ]_vars

\* the role admin is bound by b1 and b2, and the DeleteRole of it was refused
\* naming b2
C25_Witness ==
    /\ ret = [op |-> "DeleteRole", val |-> "InvalidInput", reason |-> "b2"]
    /\ roles["admin"].exists
    /\ roleBindings["b1"].exists /\ roleBindings["b1"].RoleRef = "admin"
    /\ roleBindings["b2"].exists /\ roleBindings["b2"].RoleRef = "admin"

\* C26: a CreateRoleBinding changes the stored bindings only by adding the
\* binding it was given, and only when that binding is not nil, has a name, a
\* role reference name and a subject, and the referenced role exists; a
\* binding of the wrong shape gets InvalidInput, a well-shaped one whose role
\* lookup fails gets the error of the lookup (role not found when the role
\* does not exist), and in both cases the stored bindings stay as they were.
C26_BindingNeedsShapeAndRole ==
    [][\A binding \in NewBindings : CreateRoleBinding(binding) =>
          LET shaped == /\ binding # NilBinding
                        /\ binding.Name # ""
                        /\ binding.RoleRef # ""
                        /\ Len(binding.Subjects) >= 1
          IN  /\ roleBindings' # roleBindings
                    => /\ shaped
                       /\ roles[binding.RoleRef].exists
                       /\ ret'.val = "ok"
                       /\ ~roleBindings[binding.Name].exists
                       /\ roleBindings' = [roleBindings EXCEPT ![binding.Name] =
                              [exists |-> TRUE, RoleRef |-> binding.RoleRef,
                               Subjects |-> binding.Subjects]]
              /\ ~shaped
                    => /\ ret'.val = "InvalidInput"
                       /\ roleBindings' = roleBindings
              /\ (shaped /\ ~roles[binding.RoleRef].exists)
                    => /\ ret'.val \in {"not_found", "storage"}
                       /\ binding.RoleRef \notin storeFault => ret'.val = "not_found"
                       /\ roleBindings' = roleBindings
              /\ (shaped /\ binding.RoleRef \in storeFault)
                    => /\ ret'.val = "storage"
                       /\ roleBindings' = roleBindings
      ]_vars

\* a binding of the right shape was refused because its role reader does not
\* exist, while another role and another binding do
C26_Witness ==
    /\ ret = Ret("CreateRoleBinding", "not_found")
    /\ ~roles["reader"].exists
    /\ roles["admin"].exists
    /\ roleBindings["b1"].exists
    /\ ~roleBindings["b2"].exists
    /\ storeFault = {}

(***************************************************************************)
(* The store factory: getManager under storeFactory.mu, and Close.  The    *)
(* New*Store constructors all begin with getManager(cfg).                  *)
(***************************************************************************)
MaxMade == 2

DSNs == {"d1", "d2"}
Goroutines == {"g1", "g2"}

IdleCaller == [pc |-> "idle", dsn |-> "", manager |-> 0, err |-> "none"]
NoneMade == [count |-> 0, failed |-> {}]

\* the instance NewManager returns for the DSN: one never seen before
Instance(dsn, count) == count + 1

\* managers[cfg.GetDSN()] with its exists flag
Cached(ms, dsn) == ms[dsn] # 0

\* sync.RWMutex: RLock waits for the writer, Lock for the writer and the readers
CanRLock(m) == m.writer = "none"

\* a Lock that waits for nobody
CanLockAlways(m) == TRUE

CanLock(m) == m.writer = "none" /\ m.readers = {}

FactoryFrame ==
    UNCHANGED <<db, registry, pc, dc, ret, pre, crudVars, rbacVars, verVars, qbVars, extVars>>

\* a goroutine calls New*Store(cfg), that is getManager(cfg)
GetManagerCall(g, dsn) ==
    /\ callers[g].pc = "idle"
    /\ callers' = [callers EXCEPT ![g] = [IdleCaller EXCEPT !.pc = "rlock", !.dsn = dsn]]
    /\ UNCHANGED <<managers, mu, made>>
    /\ FactoryFrame

\* f.mu.RLock()
RLock(g) ==
    /\ callers[g].pc = "rlock"
    /\ CanRLock(mu)
    /\ mu' = [mu EXCEPT !.readers = @ \cup {g}]
    /\ callers' = [callers EXCEPT ![g].pc = "read"]
    /\ UNCHANGED <<managers, made>>
    /\ FactoryFrame

\* manager, exists := f.managers[dsn]; f.mu.RUnlock(); if exists { return manager }
ReadUnlock(g) ==
    /\ callers[g].pc = "read"
    /\ mu' = [mu EXCEPT !.readers = @ \ {g}]
    /\ callers' = [callers EXCEPT
           ![g].manager = managers[callers[g].dsn],
           ![g].pc = IF Cached(managers, callers[g].dsn) THEN "done" ELSE "lock"]
    /\ UNCHANGED <<managers, made>>
    /\ FactoryFrame

\* f.mu.Lock(); defer f.mu.Unlock()
Lock(g) ==
    /\ callers[g].pc = "lock"
    /\ CanLock(mu)
    /\ mu' = [mu EXCEPT !.writer = g]
    /\ callers' = [callers EXCEPT ![g].pc = "check"]
    /\ UNCHANGED <<managers, made>>
    /\ FactoryFrame

Unlocked(m, g) == [m EXCEPT !.writer = IF @ = g THEN "none" ELSE @]

\* the double check after the write lock
Recheck(g) ==
    /\ callers[g].pc = "check"
    /\ IF Cached(managers, callers[g].dsn)
       THEN /\ callers' = [callers EXCEPT ![g].manager = managers[callers[g].dsn],
                                          ![g].pc = "done"]
            /\ mu' = Unlocked(mu, g)
       ELSE /\ callers' = [callers EXCEPT ![g].pc = "create"]
            /\ UNCHANGED mu
    /\ UNCHANGED <<managers, made>>
    /\ FactoryFrame

\* f.managerFactory.NewManager(...): a new instance, or an error
NewManager(g) ==
    /\ callers[g].pc = "create"
    /\ LET dsn == callers[g].dsn
       IN \/ /\ callers' = [callers EXCEPT ![g].pc = "done", ![g].manager = 0,
                                           ![g].err = "create_failed"]
             /\ mu' = Unlocked(mu, g)
             /\ UNCHANGED made
          \/ /\ made[dsn].count < MaxMade
             /\ made' = [made EXCEPT ![dsn].count = @ + 1]
             /\ callers' = [callers EXCEPT ![g].pc = "init",
                                ![g].manager = Instance(dsn, made[dsn].count)]
             /\ UNCHANGED mu
    /\ UNCHANGED managers
    /\ FactoryFrame

\* manager.Initialize(nil), then f.managers[dsn] = manager; return manager, nil
InitializeAndStore(g) ==
    /\ callers[g].pc = "init"
    /\ LET dsn == callers[g].dsn
       IN \/ /\ made' = [made EXCEPT ![dsn].failed = @ \cup {callers[g].manager}]
             /\ callers' = [callers EXCEPT ![g].pc = "done", ![g].manager = 0,
                                           ![g].err = "initialize_failed"]
             /\ UNCHANGED managers
          \/ /\ managers' = [managers EXCEPT ![dsn] = callers[g].manager]
             /\ callers' = [callers EXCEPT ![g].pc = "done"]
             /\ UNCHANGED made
    /\ mu' = Unlocked(mu, g)
    /\ FactoryFrame

\* the caller takes what getManager returned
GetManagerReturn(g) ==
    /\ callers[g].pc = "done"
    /\ callers' = [callers EXCEPT ![g] = IdleCaller]
    /\ UNCHANGED <<managers, mu, made>>
    /\ FactoryFrame

\* storeFactory.Close: under the write lock, close and delete every manager
FactoryClose(g) ==
    /\ callers[g].pc = "idle"
    /\ CanLock(mu)
    /\ \E dsn \in DSNs : Cached(managers, dsn)
    /\ managers' = [dsn \in DSNs |-> 0]
    /\ UNCHANGED <<mu, callers, made>>
    /\ FactoryFrame

InitFactory ==
    /\ db = [x \in TableNames |-> NoTable]
    /\ registry = {}
    /\ pc = "idle"
    /\ dc = IdleFrame
    /\ ret = Ret("none", "none")
    /\ pre = db
    /\ CrudIdle
    /\ RbacIdle
    /\ VerIdle
    /\ ExtIdle
    /\ managers = [dsn \in DSNs |-> 0]
    /\ mu = [readers |-> {}, writer |-> "none"]
    /\ callers = [g \in Goroutines |-> IdleCaller]
    /\ made = [dsn \in DSNs |-> NoneMade]
    /\ params = <<>>
    /\ built = <<>>

NextFactory ==
    \/ \E g \in Goroutines, dsn \in DSNs : GetManagerCall(g, dsn)
    \/ \E g \in Goroutines : RLock(g)
    \/ \E g \in Goroutines : ReadUnlock(g)
    \/ \E g \in Goroutines : Lock(g)
    \/ \E g \in Goroutines : Recheck(g)
    \/ \E g \in Goroutines : NewManager(g)
    \/ \E g \in Goroutines : InitializeAndStore(g)
    \/ \E g \in Goroutines : GetManagerReturn(g)
    \/ \E g \in Goroutines : FactoryClose(g)

SpecFactory == InitFactory /\ [][NextFactory]_vars

\* C27: under every interleaving of getManager and Close calls, a manager is
\* created for a DSN only while no manager is cached for it and no other call is
\* creating one; a call that returns without error returns the manager cached
\* for its DSN; the cached entry of a DSN changes only from absent to the
\* manager just created and initialized, or to absent by Close; and a manager
\* whose Initialize failed is never the cached one (a failed NewManager
\* yields no manager at all).
C27_ManagerMadeOncePerDSN ==
    /\ [][/\ \A dsn \in DSNs :
                made'[dsn].count # made[dsn].count
                   => /\ managers[dsn] = 0
                      /\ \A g \in Goroutines :
                            ~(callers[g].dsn = dsn /\ callers[g].pc = "init")
          /\ \A g \in Goroutines :
                (callers[g].pc # "done" /\ callers'[g].pc = "done"
                    /\ callers'[g].err = "none")
                   => /\ callers'[g].manager # 0
                      /\ callers'[g].manager = managers'[callers'[g].dsn]
          /\ \A dsn \in DSNs :
                managers'[dsn] # managers[dsn]
                   => \/ /\ managers[dsn] = 0
                         /\ managers'[dsn] = made[dsn].count
                         /\ made' = made
                      \/ managers' = [d \in DSNs |-> 0]
         ]_vars
    /\ [](\A dsn \in DSNs : managers[dsn] \notin made[dsn].failed)

\* for one DSN a first manager failed to initialize and was dropped, a second
\* is cached, and both goroutines hold that second manager
C27_Witness ==
    /\ made["d1"] = [count |-> 2, failed |-> {1}]
    /\ managers["d1"] = 2
    /\ \A g \in Goroutines :
          callers[g] = [pc |-> "done", dsn |-> "d1", manager |-> 2, err |-> "none"]

(***************************************************************************)
(* The query builder: a caller holds a QueryParams object, adds conditions *)
(* to it and asks it for its WHERE clause.                                 *)
(***************************************************************************)
MaxWhere == 2
MaxBuilds == 2

\* fmt.Sprintf("%s %s ?", w.Column, w.Operator) for each condition, to be
\* joined with " AND ": one placeholder in each
WhereClause(q) ==
    [i \in 1..Len(q.Where) |-> <<q.Where[i].Column, q.Where[i].Operator, "?">>]

\* the number of placeholders in a clause
Placeholders(clause) == Len(clause)

\* GetWhereClause has a pointer receiver: it returns the clause and leaves the
\* values of the conditions appended to p.Args
GetWhereClause(q) ==
    [clause |-> WhereClause(q), params |-> [q EXCEPT !.Args = GetArgs(q)]]

NoBuilt == [n |-> 0, first |-> <<>>, last |-> <<>>]

BuilderFrame ==
    UNCHANGED <<db, registry, pc, dc, ret, pre, crudVars, rbacVars, verVars, facVars, extVars>>

\* params := query.QueryParams{...}
NewQueryParams(q) ==
    /\ params' = q
    /\ built' = NoBuilt
    /\ BuilderFrame

\* params.AddWhere(column, operator, value)
AddWhere(column, operator, value) ==
    /\ Len(params.Where) < MaxWhere
    /\ params' = [params EXCEPT !.Where = Append(@, WhereCondition(column, operator, value))]
    /\ built' = NoBuilt
    /\ BuilderFrame

\* params.GetWhereClause(), then params.GetArgs()
Build ==
    /\ built.n < MaxBuilds
    /\ LET r == GetWhereClause(params)
           out == [clause |-> r.clause, args |-> r.params.Args]
       IN /\ params' = r.params
          /\ built' = [n |-> built.n + 1,
                       first |-> IF built.n = 0 THEN out ELSE built.first,
                       last |-> out]
    /\ BuilderFrame

InitBuilder ==
    /\ db = [x \in TableNames |-> NoTable]
    /\ registry = {}
    /\ pc = "idle"
    /\ dc = IdleFrame
    /\ ret = Ret("none", "none")
    /\ pre = db
    /\ CrudIdle
    /\ RbacIdle
    /\ VerIdle
    /\ ExtIdle
    /\ managers = [d \in {} |-> 0]
    /\ mu = [readers |-> {}, writer |-> "none"]
    /\ callers = [p \in {} |-> 0]
    /\ made = [d \in {} |-> {}]
    /\ params = QueryParams(<<>>, <<>>, <<>>, 0, 0)
    /\ built = NoBuilt

NextBuilder ==
    \/ \E q \in Queries : NewQueryParams(q)
    \/ \E column \in {c_id, c_a}, operator \in {"=", "<"}, value \in Vals :
          AddWhere(column, operator, value)
    \/ Build

SpecBuilder == InitBuilder /\ [][NextBuilder]_vars

\* C28: every build of the same QueryParams returns the clause and the
\* argument list the first build returned, the arguments being the values of
\* the conditions from left to right, and after every build the object holds
\* as many arguments as its clause has placeholders.
C28_BuildIsRepeatable ==
    built.n >= 1 =>
       /\ built.last.clause = built.first.clause
       /\ built.last.args = built.first.args
       /\ built.first.args = [i \in 1..Len(params.Where) |-> params.Where[i].Value]
       /\ Len(params.Args) = Placeholders(built.last.clause)

\* the operators the query builder is documented to accept
AllowedOperators == {"=", "!=", "<", "<=", ">", ">=", "LIKE", "IN"}

\* C29: a DynamicQuery with a condition whose operator is not one of =, !=, <,
\* <=, >, >=, LIKE, IN returns an error and no rows.
C29_UnknownOperatorRejected ==
    [][\A t \in CrudTables, q \in Queries :
          (/\ DynamicQuery(t, q)
           /\ \E i \in 1..Len(q.Where) : q.Where[i].Operator \notin AllowedOperators)
             => /\ ret'.val = "error"
                /\ res' = NoRes
      ]_vars

\* C30: a CreateDynamicTable, AlterDynamicTable or DropDynamicTable whose
\* table name does not match ^[a-zA-Z][a-zA-Z0-9_]{0,63}$ is rejected: it
\* returns an error and leaves the database as it was.
C30_InvalidNameRejected ==
    [][\A n \in TableArgs :
          (/\ ~isValidIdentifier(NameChars(n))
           /\ \/ \E opts \in TableOpts : CreateDynamicTable(n, opts)
              \/ \E change \in Changes : AlterDynamicTable(n, change[1], change[2])
              \/ DropDynamicTable(n))
             => /\ ret'.val # "ok"
                /\ db' = db
      ]_vars

(***************************************************************************)
(* The user store over the users table: id is the primary key, username    *)
(* and email carry UNIQUE constraints, which the engine enforces over      *)
(* every row of the table, soft-deleted ones included.                     *)
(***************************************************************************)
UserCols ==
    CoreCols \o << [name |-> c_username, type |-> TEXT],
                   [name |-> c_email, type |-> TEXT],
                   [name |-> c_password_hash, type |-> TEXT],
                   [name |-> c_is_active, type |-> T_BOOLEAN] >>

UniqueCols == {c_username, c_email}

\* v1alpha1.User, as far as the store reads it
User(name, username, email) == [Name |-> name, Username |-> username, Email |-> email]

\* an INSERT or UPDATE that would leave two rows with one value in a UNIQUE
\* column fails: "UNIQUE constraint failed"
UniqueViolated(rows, id, data) ==
    \E i \in 1..Len(rows), c \in UniqueCols \cap DOMAIN data :
        rows[i][c_id] # id /\ rows[i][c] = data[c]

UsersFrame == <<registry, pc, dc, pre, now, res, deleted, rbacVars, verVars, facVars, qbVars, extVars>>

UsersReturn(op, val) == ret' = Ret(op, val)

\* DynamicUpdate on the users table, for the typed store's callers
UsersDynamicUpdate(op, id, data) ==
    LET rows == db["users"].rows IN
    IF UniqueViolated(rows, id, data)
    THEN UsersReturn(op, "error") /\ UNCHANGED db
    ELSE IF Affected(rows, id) = {}
    THEN UsersReturn(op, "not_found") /\ UNCHANGED db
    ELSE /\ db' = [db EXCEPT !["users"].rows = UpdateRows(@, id, data, now)]
         /\ UsersReturn(op, "ok")

UserStore_Create(user) ==
    LET rows == db["users"].rows
        data == (c_id :> user.Name) @@ (c_username :> user.Username)
                   @@ (c_email :> user.Email) @@ (c_password_hash :> 0)
                   @@ (c_is_active :> 1) @@ (c_created_at :> now)
                   @@ (c_updated_at :> now)
    IN /\ pc = "idle"
       /\ IF HasId(rows, user.Name) \/ UniqueViolated(rows, user.Name, data)
          THEN UsersReturn("UserStore_Create", "error") /\ UNCHANGED db
          ELSE /\ db' = [db EXCEPT !["users"].rows =
                            Append(@, NewRow(db["users"], data, now))]
               /\ UsersReturn("UserStore_Create", "ok")
       /\ UNCHANGED UsersFrame

UserStore_Update(user) ==
    LET tbl == db["users"]
        found == DynamicSelectRows(tbl, c_id :> user.Name)
        byUsername == DynamicSelectRows(tbl, c_username :> user.Username)
        byEmail == DynamicSelectRows(tbl, c_email :> user.Email)
        data == (c_username :> user.Username) @@ (c_email :> user.Email)
    IN /\ pc = "idle"
       /\ IF found = <<>>
          THEN UsersReturn("UserStore_Update", "UserNotFound") /\ UNCHANGED db
          ELSE IF /\ found[1][c_username] # user.Username
                  /\ byUsername # <<>>
                  /\ byUsername[1][c_id] # user.Name
          THEN UsersReturn("UserStore_Update", "username_exists") /\ UNCHANGED db
          ELSE IF /\ found[1][c_email] # user.Email
                  /\ byEmail # <<>>
                  /\ byEmail[1][c_id] # user.Name
          THEN UsersReturn("UserStore_Update", "email_exists") /\ UNCHANGED db
          ELSE UsersDynamicUpdate("UserStore_Update", user.Name, data)
       /\ UNCHANGED UsersFrame

UserStore_Delete(name) ==
    /\ pc = "idle"
    /\ IF AffectedLive(db["users"].rows, name) = {}
       THEN UsersReturn("UserStore_Delete", "not_found") /\ UNCHANGED db
       ELSE /\ db' = [db EXCEPT !["users"].rows = SoftDeleteRows(@, name, now)]
            /\ UsersReturn("UserStore_Delete", "ok")
    /\ UNCHANGED UsersFrame

UserStore_UpdatePassword(name, hashedPassword) ==
    /\ pc = "idle"
    /\ UsersDynamicUpdate("UserStore_UpdatePassword", name,
                          c_password_hash :> hashedPassword)
    /\ UNCHANGED UsersFrame

UserStore_UpdateStatus(name, active) ==
    /\ pc = "idle"
    /\ UsersDynamicUpdate("UserStore_UpdateStatus", name, c_is_active :> active)
    /\ UNCHANGED UsersFrame

UserArgs == {User(n, u, e) : n \in Ids, u \in 1..3, e \in 1..2}

InitUsers ==
    /\ db = [x \in TableNames |->
                IF x = "users"
                THEN [exists |-> TRUE, cols |-> UserCols, rows |-> <<>>]
                ELSE NoTable]
    /\ registry = {"users"}
    /\ pc = "idle"
    /\ dc = IdleFrame
    /\ ret = Ret("none", "none")
    /\ pre = db
    /\ CrudIdle
    /\ RbacIdle
    /\ VerIdle
    /\ ExtIdle
    /\ FacIdle

NextUsers ==
    \/ \E user \in UserArgs : UserStore_Create(user)
    \/ \E user \in UserArgs : UserStore_Update(user)
    \/ \E name \in Ids : UserStore_Delete(name)
    \/ \E name \in Ids : UserStore_UpdatePassword(name, 1)
    \/ \E name \in Ids : UserStore_UpdateStatus(name, 0)

SpecUsers == InitUsers /\ [][NextUsers]_vars

\* the alive rows of other users that hold the username or the email of user
HeldByOther(rows, user) ==
    {i \in 1..Len(rows) :
        /\ Live(rows[i])
        /\ rows[i][c_id] # user.Name
        /\ \/ rows[i][c_username] = user.Username
           \/ rows[i][c_email] = user.Email}

\* C31: an Update of an alive user that takes the username or the email an
\* alive row of another user holds returns an error and changes no row; an
\* Update that keeps the user's own values or takes values no alive user holds
\* succeeds and stores them.
C31_UpdateChecksUniqueness ==
    [][\A user \in UserArgs :
          (/\ UserStore_Update(user)
           /\ AffectedLive(db["users"].rows, user.Name) # {})
             => IF HeldByOther(db["users"].rows, user) # {}
                THEN ret'.val # "ok" /\ db' = db
                ELSE /\ ret'.val = "ok"
                     /\ \E i \in 1..Len(db'["users"].rows) :
                           /\ db'["users"].rows[i][c_id] = user.Name
                           /\ db'["users"].rows[i][c_username] = user.Username
                           /\ db'["users"].rows[i][c_email] = user.Email
      ]_vars

(***************************************************************************)
(* Column-drop: the order and the number of the statements.                *)
(***************************************************************************)
CopiesIn(log) == Cardinality({k \in 1..Len(log) : log[k] = "COPY"})

\* the statements of one call: CREATE, then COPY statements, then DROP, then
\* RENAME, or a beginning of that
InStepOrder(log) ==
    \A k \in 1..Len(log) :
        CASE log[k] = "CREATE" -> k = 1
          [] log[k] = "COPY" -> k > 1 /\ log[k - 1] \in {"CREATE", "COPY"}
          [] log[k] = "DROP" -> k > 1 /\ log[k - 1] = "COPY"
          [] log[k] = "RENAME" -> k > 1 /\ log[k - 1] = "DROP"
          [] OTHER -> FALSE

\* C32: the statements of every DropColumn call come in the order CREATE
\* temporary table, COPY at the offsets 0, b, 2b, ..., DROP source, RENAME;
\* the call passes from the copy loop to the DROP only by a copy statement
\* that succeeded and reported zero rows affected, and the RENAME follows
\* the DROP.
C32_StepsInOrder ==
    /\ [](/\ InStepOrder(dc.log)
          /\ pc = "copy" => dc.offset = dc.batch * CopiesIn(dc.log)
          /\ pc = "drop" => dc.log[Len(dc.log)] = "COPY" /\ dc.fault = "none"
          /\ pc = "rename" => dc.log[Len(dc.log)] = "DROP")
    /\ [][(pc' = "drop" /\ pc # "drop")
             => /\ pc = "copy"
                /\ dc'.log = Append(dc.log, "COPY")
                /\ dc'.fault = "none"
                /\ db' = db
         ]_vars

\* C32 witness: two rows copied one at a time: CREATE, three COPY statements
\* (the third found nothing), DROP, RENAME
C32_Witness ==
    /\ DropDone
    /\ ret.val = "ok"
    /\ dc.batch = 1
    /\ Len(pre["t"].rows) = 2
    /\ dc.log = <<"CREATE", "COPY", "COPY", "COPY", "DROP", "RENAME">>

\* ceil(n / b) for b >= 1
Ceil(n, b) == (n + b - 1) \div b

\* C33: with a batch size b >= 1 and no failing statement, the copy loop over
\* a source of N rows issues no more than ceil(N/b) + 1 copy statements, and
\* when the call has returned it has issued exactly that many and the table
\* holds each source row once, in the source's order.
C33_CopyLoopCount ==
    LET N == Len(pre[dc.table].rows)
        copied == db[dc.table].rows
    IN (dc.called /\ dc.batch >= 1 /\ dc.fault = "none")
          => /\ CopiesIn(dc.log) <= Ceil(N, dc.batch) + 1
             /\ (DropDone /\ ret.val = "ok")
                   => /\ CopiesIn(dc.log) = Ceil(N, dc.batch) + 1
                      /\ Len(copied) = N
                      /\ \A i \in 1..N :
                            copied[i][c_id] = pre[dc.table].rows[i][c_id]

\* C33 witness: three rows in batches of three: two copy statements
C33_Witness ==
    /\ DropDone
    /\ ret.val = "ok"
    /\ dc.fault = "none"
    /\ dc.batch = 3
    /\ Len(pre["t"].rows) = 3
    /\ CopiesIn(dc.log) = 2
    /\ Len(db["t"].rows) = 3

\* C34: whatever batch size is passed (0 and negative sizes too), a call that
\* met no failing statement and has returned either returned an error and
\* left the source table as it was, or returned success with the table
\* holding as many rows as before.
C34_NoRowsLostForAnyBatch ==
    (DropDone /\ dc.fault = "none")
        => \/ ret.val # "ok" /\ db[dc.table] = pre[dc.table]
           \/ /\ ret.val = "ok"
              /\ db[dc.table].exists
              /\ Len(db[dc.table].rows) = Len(pre[dc.table].rows)

\* the user's row is soft-deleted
UserSoftDeleted(name) ==
    \E i \in 1..Len(db["users"].rows) :
        db["users"].rows[i][c_id] = name /\ ~Live(db["users"].rows[i])

\* C35: an update of a soft-deleted row, through Update, UpdatePassword or
\* UpdateStatus of the user store (all of them DynamicUpdate on the id),
\* returns the not-found error and leaves the table as it was.
C35_SoftDeletedNeverModified ==
    [][\A name \in Ids :
          (/\ UserSoftDeleted(name)
           /\ \/ UserStore_UpdatePassword(name, 1)
              \/ UserStore_UpdateStatus(name, 0)
              \/ \E user \in UserArgs : user.Name = name /\ UserStore_Update(user))
             => /\ ret'.val \in {"not_found", "UserNotFound"}
                /\ db' = db
      ]_vars

\* C36: an AlterDynamicTable over a map of several changes that returns an
\* error (an action that is not ADD, DROP or MODIFY, an ADD whose column
\* definition is malformed, a MODIFY, an ADD or a DROP that fails) has applied
\* none of the map's changes: the tables are as they were, whatever the order
\* the changes were visited in.
C36_AlterAllOrNothing ==
    [][\A n \in TableArgs, first \in Changes, second \in Changes :
          (AlterDynamicTableMap(n, first, second) /\ ret'.val # "ok")
             => db' = db
      ]_vars

(***************************************************************************)
(* The RBAC controller called from several goroutines.  The controller     *)
(* holds no lock of its own; every call of the store runs under the        *)
(* store's mutex, so a controller operation is a sequence of atomic store  *)
(* calls, and the calls of other goroutines come between them.             *)
(***************************************************************************)
IdleCall == [pc |-> "idle", name |-> "", binding |-> NilBinding]

CallsFrame ==
    UNCHANGED <<db, registry, pc, dc, pre, crudVars, storeFault, access,
                verVars, facVars, qbVars, errs, conn>>

CallsReturn(g, op, val) ==
    /\ calls' = [calls EXCEPT ![g] = IdleCall]
    /\ ret' = Ret(op, val)

CallArgsBindings ==
    { RoleBinding("b1", "admin", <<Subject("User", "alice")>>),
      RoleBinding("b2", "admin", <<Subject("User", "bob")>>),
      RoleBinding("b2", "reader", <<Subject("User", "bob")>>) }

\* CreateRole: validation, then store.CreateRole
CreateRoleCall(g, role) ==
    /\ calls[g].pc = "idle"
    /\ IF ~ValidRole(role)
       THEN CallsReturn(g, "CreateRole", "InvalidInput") /\ UNCHANGED roles
       ELSE IF roles[role.Name].exists
       THEN CallsReturn(g, "CreateRole", "RoleExists") /\ UNCHANGED roles
       ELSE /\ roles' = [roles EXCEPT ![role.Name] =
                            [exists |-> TRUE, Rules |-> role.Rules]]
            /\ CallsReturn(g, "CreateRole", "ok")
    /\ UNCHANGED roleBindings
    /\ CallsFrame

\* DeleteRole: the name, then store.GetRole
DeleteRoleGetRole(g, name) ==
    /\ calls[g].pc = "idle"
    /\ IF name = ""
       THEN CallsReturn(g, "DeleteRole", "InvalidInput")
       ELSE IF ~roles[name].exists
       THEN CallsReturn(g, "DeleteRole", "RoleNotFound")
       ELSE /\ calls' = [calls EXCEPT ![g] = [IdleCall EXCEPT !.pc = "DeleteRole:list",
                                                              !.name = name]]
            /\ UNCHANGED ret
    /\ UNCHANGED <<roles, roleBindings>>
    /\ CallsFrame

\* DeleteRole: store.ListRoleBindings and the loop over the listing
DeleteRoleListRoleBindings(g) ==
    /\ calls[g].pc = "DeleteRole:list"
    /\ IF Referenced(roleBindings, calls[g].name)
       THEN CallsReturn(g, "DeleteRole", "InvalidInput")
       ELSE /\ calls' = [calls EXCEPT ![g].pc = "DeleteRole:delete"]
            /\ UNCHANGED ret
    /\ UNCHANGED <<roles, roleBindings>>
    /\ CallsFrame

\* DeleteRole: store.DeleteRole
DeleteRoleStore(g) ==
    /\ calls[g].pc = "DeleteRole:delete"
    /\ IF ~roles[calls[g].name].exists
       THEN CallsReturn(g, "DeleteRole", "RoleNotFound") /\ UNCHANGED roles
       ELSE /\ roles' = [roles EXCEPT ![calls[g].name] = NoRole]
            /\ CallsReturn(g, "DeleteRole", "ok")
    /\ UNCHANGED roleBindings
    /\ CallsFrame

\* CreateRoleBinding: validation, then store.GetRole of the referenced role
CreateRoleBindingGetRole(g, binding) ==
    /\ calls[g].pc = "idle"
    /\ IF ~ValidBinding(binding)
       THEN CallsReturn(g, "CreateRoleBinding", "InvalidInput")
       ELSE IF ~roles[binding.RoleRef].exists
       THEN CallsReturn(g, "CreateRoleBinding", "RoleNotFound")
       ELSE /\ calls' = [calls EXCEPT ![g] =
                            [IdleCall EXCEPT !.pc = "CreateRoleBinding:create",
                                             !.binding = binding]]
            /\ UNCHANGED ret
    /\ UNCHANGED <<roles, roleBindings>>
    /\ CallsFrame

\* CreateRoleBinding: store.CreateRoleBinding
CreateRoleBindingStore(g) ==
    /\ calls[g].pc = "CreateRoleBinding:create"
    /\ LET binding == calls[g].binding
       IN IF roleBindings[binding.Name].exists
          THEN CallsReturn(g, "CreateRoleBinding", "AlreadyExists")
                  /\ UNCHANGED roleBindings
          ELSE /\ roleBindings' = [roleBindings EXCEPT ![binding.Name] =
                                      [exists |-> TRUE, RoleRef |-> binding.RoleRef,
                                       Subjects |-> binding.Subjects]]
               /\ CallsReturn(g, "CreateRoleBinding", "ok")
    /\ UNCHANGED roles
    /\ CallsFrame

\* DeleteRoleBinding: the name, then store.GetRoleBinding
DeleteRoleBindingGet(g, name) ==
    /\ calls[g].pc = "idle"
    /\ IF name = ""
       THEN CallsReturn(g, "DeleteRoleBinding", "InvalidInput")
       ELSE IF ~roleBindings[name].exists
       THEN CallsReturn(g, "DeleteRoleBinding", "RoleBindingNotFound")
       ELSE /\ calls' = [calls EXCEPT ![g] =
                            [IdleCall EXCEPT !.pc = "DeleteRoleBinding:delete",
                                             !.name = name]]
            /\ UNCHANGED ret
    /\ UNCHANGED <<roles, roleBindings>>
    /\ CallsFrame

\* DeleteRoleBinding: store.DeleteRoleBinding
DeleteRoleBindingStore(g) ==
    /\ calls[g].pc = "DeleteRoleBinding:delete"
    /\ IF ~roleBindings[calls[g].name].exists
       THEN CallsReturn(g, "DeleteRoleBinding", "RoleBindingNotFound")
               /\ UNCHANGED roleBindings
       ELSE /\ roleBindings' = [roleBindings EXCEPT ![calls[g].name] = NoBinding]
            /\ CallsReturn(g, "DeleteRoleBinding", "ok")
    /\ UNCHANGED roles
    /\ CallsFrame

InitCalls ==
    /\ db = [x \in TableNames |-> NoTable]
    /\ registry = {}
    /\ pc = "idle"
    /\ dc = IdleFrame
    /\ ret = Ret("none", "none")
    /\ pre = db
    /\ CrudIdle
    /\ roles = [r \in RoleNames |-> NoRole]
    /\ roleBindings = [b \in BindingNames |-> NoBinding]
    /\ storeFault = {}
    /\ access = NoAccess
    /\ VerIdle
    /\ FacIdle
    /\ calls = [g \in Goroutines |-> IdleCall]
    /\ errs = [k \in {} |-> ""]
    /\ conn = [c \in {} |-> FALSE]

NextCalls ==
    \/ \E g \in Goroutines, name \in RoleNames : CreateRoleCall(g, Role(name, <<R_star>>))
    \/ \E g \in Goroutines, name \in RoleNames \cup {""} : DeleteRoleGetRole(g, name)
    \/ \E g \in Goroutines : DeleteRoleListRoleBindings(g)
    \/ \E g \in Goroutines : DeleteRoleStore(g)
    \/ \E g \in Goroutines, binding \in CallArgsBindings : CreateRoleBindingGetRole(g, binding)
    \/ \E g \in Goroutines : CreateRoleBindingStore(g)
    \/ \E g \in Goroutines, name \in BindingNames \cup {""} : DeleteRoleBindingGet(g, name)
    \/ \E g \in Goroutines : DeleteRoleBindingStore(g)

SpecCalls == InitCalls /\ [][NextCalls]_vars

\* C37: whatever controller calls of CreateRole, DeleteRole, CreateRoleBinding
\* and DeleteRoleBinding have run, one after another or interleaved, every
\* role binding of the store references a role of the store.
C37_BindingsReferenceRoles ==
    \A b \in BindingNames :
        roleBindings[b].exists => roles[roleBindings[b].RoleRef].exists

(***************************************************************************)
(* The role binding store's subject edits, called from several goroutines. *)
(* AddSubject and RemoveSubject read the binding (Get), change their copy  *)
(* of the subject list and hand it to Update, which reads the binding      *)
(* again (Get) and then writes the whole list (DynamicUpdate).  No lock    *)
(* and no transaction spans the three statements.                          *)
(***************************************************************************)
NoSubject == Subject("", "")

IdleEdit == [pc |-> "idle", op |-> "", name |-> "", subject |-> NoSubject,
             subjects |-> <<>>, added |-> NoSubject]

EditArgs == {Subject("User", "bob"), Subject("User", "carol")}

EditsFrame ==
    UNCHANGED <<db, registry, pc, dc, pre, crudVars, roles, storeFault, access,
                verVars, facVars, qbVars, errs, conn>>

\* the call returns; a successful AddSubject is remembered with its subject
EditReturn(edits, g, val) ==
    /\ calls' = [edits EXCEPT ![g] =
                    [IdleEdit EXCEPT !.added =
                        IF edits[g].op = "AddSubject" /\ val = "ok"
                        THEN edits[g].subject ELSE NoSubject]]
    /\ ret' = Ret(edits[g].op, val)

\* newSubjects of RemoveSubject: the list without the subject
RECURSIVE Without(_, _)
Without(subjects, subject) ==
    IF subjects = <<>> THEN <<>>
    ELSE IF subjects[1] = subject THEN Without(Tail(subjects), subject)
    ELSE <<subjects[1]>> \o Without(Tail(subjects), subject)

\* AddSubject: s.Get, the loop over binding.Subjects, the append
AddSubject(g, name, subject) ==
    /\ calls[g].pc = "idle"
    /\ LET call == [calls EXCEPT ![g].op = "AddSubject", ![g].subject = subject]
       IN IF ~roleBindings[name].exists
          THEN EditReturn(call, g, "RoleBindingNotFound")
          ELSE IF contains(roleBindings[name].Subjects, subject)
          THEN EditReturn(call, g, "subject_exists")
          ELSE /\ calls' = [call EXCEPT ![g].pc = "Update:Get", ![g].name = name,
                                        ![g].added = NoSubject,
                                        ![g].subjects =
                                            Append(roleBindings[name].Subjects, subject)]
               /\ UNCHANGED ret
    /\ UNCHANGED roleBindings
    /\ EditsFrame

\* RemoveSubject: s.Get, the loop that builds newSubjects
RemoveSubject(g, name, subject) ==
    /\ calls[g].pc = "idle"
    /\ LET call == [calls EXCEPT ![g].op = "RemoveSubject", ![g].subject = subject]
       IN IF ~roleBindings[name].exists
          THEN EditReturn(call, g, "RoleBindingNotFound")
          ELSE IF ~contains(roleBindings[name].Subjects, subject)
          THEN EditReturn(call, g, "subject_not_found")
          ELSE /\ calls' = [call EXCEPT ![g].pc = "Update:Get", ![g].name = name,
                                        ![g].added = NoSubject,
                                        ![g].subjects =
                                            Without(roleBindings[name].Subjects, subject)]
               /\ UNCHANGED ret
    /\ UNCHANGED roleBindings
    /\ EditsFrame

\* Update: s.Get of the binding
UpdateGet(g) ==
    /\ calls[g].pc = "Update:Get"
    /\ IF ~roleBindings[calls[g].name].exists
       THEN EditReturn(calls, g, "RoleBindingNotFound")
       ELSE calls' = [calls EXCEPT ![g].pc = "Update:DynamicUpdate"] /\ UNCHANGED ret
    /\ UNCHANGED roleBindings
    /\ EditsFrame

\* Update: DynamicUpdate of role_ref and subjects; a RemoveSubject that has
\* written ends what is remembered of the additions before it
UpdateDynamicUpdate(g) ==
    /\ calls[g].pc = "Update:DynamicUpdate"
    /\ roleBindings' = [roleBindings EXCEPT ![calls[g].name].Subjects = calls[g].subjects]
    /\ EditReturn(IF calls[g].op = "RemoveSubject"
                  THEN [h \in DOMAIN calls |-> [calls[h] EXCEPT !.added = NoSubject]]
                  ELSE calls, g, "ok")
    /\ EditsFrame

InitEdits ==
    /\ db = [x \in TableNames |-> NoTable]
    /\ registry = {}
    /\ pc = "idle"
    /\ dc = IdleFrame
    /\ ret = Ret("none", "none")
    /\ pre = db
    /\ CrudIdle
    /\ roles = [r \in RoleNames |-> NoRole]
    /\ roleBindings = [b \in BindingNames |->
                          IF b = "b1"
                          THEN [exists |-> TRUE, RoleRef |-> "admin",
                                Subjects |-> <<Subject("User", "alice")>>]
                          ELSE NoBinding]
    /\ storeFault = {}
    /\ access = NoAccess
    /\ VerIdle
    /\ FacIdle
    /\ calls = [g \in Goroutines |-> IdleEdit]
    /\ errs = [k \in {} |-> ""]
    /\ conn = [c \in {} |-> FALSE]

NextEdits ==
    \/ \E g \in Goroutines, name \in BindingNames, subject \in EditArgs :
          AddSubject(g, name, subject)
    \/ \E g \in Goroutines, name \in BindingNames, subject \in EditArgs :
          RemoveSubject(g, name, subject)
    \/ \E g \in Goroutines : UpdateGet(g)
    \/ \E g \in Goroutines : UpdateDynamicUpdate(g)

SpecEdits == InitEdits /\ [][NextEdits]_vars

\* C38: AddSubject of a subject the binding holds returns an error and leaves
\* the binding as it is, RemoveSubject of a subject the binding does not hold
\* returns an error, and when two AddSubject calls on one binding with
\* different subjects have both returned success (no RemoveSubject having
\* written since) the stored list holds both subjects.
C38_SubjectEditsNotLost ==
    /\ [][\A g \in Goroutines, name \in BindingNames, subject \in EditArgs :
             /\ (/\ AddSubject(g, name, subject)
                 /\ roleBindings[name].exists
                 /\ contains(roleBindings[name].Subjects, subject))
                   => ret' = Ret("AddSubject", "subject_exists")
                         /\ roleBindings' = roleBindings
             /\ (/\ RemoveSubject(g, name, subject)
                 /\ roleBindings[name].exists
                 /\ ~contains(roleBindings[name].Subjects, subject))
                   => ret' = Ret("RemoveSubject", "subject_not_found")
                         /\ roleBindings' = roleBindings
         ]_vars
    /\ [](\A g \in Goroutines, h \in Goroutines :
             (/\ calls[g].pc = "idle" /\ calls[h].pc = "idle"
              /\ calls[g].added # NoSubject /\ calls[h].added # NoSubject
              /\ calls[g].added # calls[h].added)
                => /\ contains(roleBindings["b1"].Subjects, calls[g].added)
                   /\ contains(roleBindings["b1"].Subjects, calls[h].added))

(***************************************************************************)
(* The error values.  The package-level errors are pointers to one         *)
(* StatusError each; WithReason assigns the Reason of the value it is      *)
(* called on and returns that same pointer.  A caller that holds an error  *)
(* holds the pointer and reads the Reason the value has at that moment.    *)
(* Here the controller runs over a store that holds no role and no role    *)
(* binding and whose listings fail.                                        *)
(***************************************************************************)
ErrorKinds == {"ErrInvalidInput", "ErrInternal", "ErrRoleNotFound", "ErrNotImplemented"}

\* a caller holds no error
NoError == [kind |-> "none", attached |-> "", own |-> ""]

\* e.Reason = reason; return e
WithReason(values, kind, reason) == [values EXCEPT ![kind] = reason]

\* errors.NewStatusError(code, message).WithReason(reason): a value of its own
NewStatusError(reason) == [kind |-> "new", attached |-> reason, own |-> reason]

\* the package-level value kind, returned with the reason the operation
\* attached ("" when it attached none)
PackageError(kind, attached) == [kind |-> kind, attached |-> attached, own |-> ""]

\* e.Reason as the holder of e reads it
ReasonOf(e) == IF e.kind \in ErrorKinds THEN errs[e.kind] ELSE e.own

ErrsFrame ==
    UNCHANGED <<db, registry, pc, dc, pre, crudVars, rbacVars,
                verVars, facVars, qbVars, conn>>

ErrsReturn(g, op, e) ==
    /\ calls' = [calls EXCEPT ![g] = e]
    /\ ret' = Ret(op, e.kind)

\* rbacController.GetRole and memoryStore.GetRole
Errs_GetRole(g, name) ==
    /\ IF name = ""
       THEN /\ errs' = WithReason(errs, "ErrInvalidInput", "role name is required")
            /\ ErrsReturn(g, "GetRole", PackageError("ErrInvalidInput", "role name is required"))
       ELSE /\ errs' = WithReason(errs, "ErrRoleNotFound", name)
            /\ ErrsReturn(g, "GetRole", PackageError("ErrRoleNotFound", name))
    /\ ErrsFrame

\* rbacController.GetRoleBinding and memoryStore.GetRoleBinding
Errs_GetRoleBinding(g, name) ==
    /\ IF name = ""
       THEN /\ errs' = WithReason(errs, "ErrInvalidInput", "role binding name is required")
            /\ ErrsReturn(g, "GetRoleBinding",
                          PackageError("ErrInvalidInput", "role binding name is required"))
       ELSE /\ UNCHANGED errs
            /\ ErrsReturn(g, "GetRoleBinding", NewStatusError(name))
    /\ ErrsFrame

\* rbacController.ListRoleBindings when the store's listing fails
Errs_ListRoleBindings(g) ==
    /\ errs' = WithReason(errs, "ErrInternal", "failed to list role bindings")
    /\ ErrsReturn(g, "ListRoleBindings",
                  PackageError("ErrInternal", "failed to list role bindings"))
    /\ ErrsFrame

\* rbacController.ListRoles when the store returns errors.ErrInternal: the
\* error is passed on as it is
Errs_ListRoles(g) ==
    /\ UNCHANGED errs
    /\ ErrsReturn(g, "ListRoles", PackageError("ErrInternal", ""))
    /\ ErrsFrame

\* the caller drops the error it held
Errs_Drop(g) ==
    /\ calls[g] # NoError
    /\ UNCHANGED errs
    /\ ErrsReturn(g, "none", NoError)
    /\ ErrsFrame

InitErrs ==
    /\ db = [x \in TableNames |-> NoTable]
    /\ registry = {}
    /\ pc = "idle"
    /\ dc = IdleFrame
    /\ ret = Ret("none", "none")
    /\ pre = db
    /\ CrudIdle
    /\ RbacIdle
    /\ VerIdle
    /\ FacIdle
    /\ calls = [g \in Goroutines |-> NoError]
    /\ errs = [k \in ErrorKinds |-> ""]
    /\ conn = [c \in {} |-> FALSE]

NextErrs ==
    \/ \E g \in Goroutines, name \in RoleNames \cup {""} : Errs_GetRole(g, name)
    \/ \E g \in Goroutines, name \in BindingNames \cup {""} : Errs_GetRoleBinding(g, name)
    \/ \E g \in Goroutines : Errs_ListRoleBindings(g)
    \/ \E g \in Goroutines : Errs_ListRoles(g)
    \/ \E g \in Goroutines : Errs_Drop(g)

SpecErrs == InitErrs /\ [][NextErrs]_vars

\* C39: every package-level error value has an empty Reason in every state,
\* and the Reason a caller reads from an error it was returned is the reason
\* the operation that returned it attached.
C39_ErrorValuesIndependent ==
    /\ \A kind \in ErrorKinds : errs[kind] = ""
    /\ \A g \in Goroutines : calls[g] # NoError => ReasonOf(calls[g]) = calls[g].attached

(***************************************************************************)
(* Transactions of the SQLite store.  The store's gorm handle runs over a  *)
(* pool of connections; a transaction takes one connection of the pool for *)
(* its whole length and gives it back when it ends, and an operation       *)
(* issued through the store itself runs on whichever connection the pool   *)
(* hands out.  PRAGMA query_only is a setting of the connection: it stays  *)
(* as it was set until something sets it again.                            *)
(***************************************************************************)
Connections == {"c1", "c2"}

\* the data of a Create that passes ValidateData
TxnData(id) == (c_id :> id) @@ (c_name :> Word)

\* SQLiteDynamicStore.Create of valid data that carries an id, run on a
\* connection whose query_only is queryOnly: the INSERT is refused on a
\* query_only connection and on a duplicate id
CreateOutcome(tables, t, data, queryOnly) ==
    LET full == data @@ (c_created_at :> now) @@ (c_updated_at :> now)
    IN  IF queryOnly \/ HasId(tables[t].rows, data[c_id])
        THEN [ok |-> FALSE, tables |-> tables]
        ELSE [ok |-> TRUE,
              tables |-> [tables EXCEPT ![t].rows = Append(@, StoreRow(StoreFields, full))]]

\* fn(txStore): one tx.Create per id of writes, returning the first error;
\* after the last one it returns its own error when fails
RECURSIVE RunFn(_, _, _, _)
RunFn(tables, writes, fails, queryOnly) ==
    IF writes = <<>>
    THEN [ok |-> ~fails, tables |-> tables]
    ELSE LET created == CreateOutcome(tables, "t", TxnData(Head(writes)), queryOnly)
         IN  IF created.ok
             THEN RunFn(created.tables, Tail(writes), fails, queryOnly)
             ELSE [ok |-> FALSE, tables |-> created.tables]

TxnFns ==
    { [writes |-> w, fails |-> f] :
        w \in {<<>>} \cup {<<i>> : i \in Ids} \cup {<<1, 2>>, <<2, 1>>},
        f \in BOOLEAN }

TxnFrame ==
    UNCHANGED <<registry, pc, dc, pre, now, deleted, rbacVars, verVars,
                facVars, qbVars, calls, errs>>

\* SQLiteDynamicStore.TransactionWithOptions on the connection c the pool
\* hands out: BEGIN, the PRAGMA when opts.ReadOnly, fn, then COMMIT when fn
\* returned nil and ROLLBACK otherwise
TransactionWithOptions(c, readOnly, fn) ==
    /\ pc = "idle"
    /\ LET queryOnly == conn[c] \/ readOnly
           ran == RunFn(db, fn.writes, fn.fails, queryOnly)
       IN  /\ conn' = [conn EXCEPT ![c] = queryOnly]
           /\ db' = IF ran.ok THEN ran.tables ELSE db
           /\ ret' = Ret("TransactionWithOptions", IF ran.ok THEN "ok" ELSE "error")
    /\ res' = NoRes
    /\ TxnFrame

\* SQLiteDynamicStore.Create issued through the store, outside a
\* transaction, on the connection c the pool hands out
StoreCreateOn(c, id) ==
    /\ pc = "idle"
    /\ LET created == CreateOutcome(db, "t", TxnData(id), conn[c])
       IN  /\ db' = created.tables
           /\ ret' = Ret("SQLiteDynamicStore_Create", IF created.ok THEN "ok" ELSE "error")
    /\ res' = Read(id, <<>>)
    /\ UNCHANGED conn
    /\ TxnFrame

InitTxn ==
    /\ db = [x \in TableNames |->
                IF x = "t"
                THEN [exists |-> TRUE, cols |-> StoreCols, rows |-> <<>>]
                ELSE NoTable]
    /\ registry = {"t"}
    /\ pc = "idle"
    /\ dc = IdleFrame
    /\ ret = Ret("none", "none")
    /\ pre = db
    /\ CrudIdle
    /\ RbacIdle
    /\ VerIdle
    /\ FacIdle
    /\ calls = [g \in {} |-> 0]
    /\ errs = [k \in {} |-> ""]
    /\ conn = [c \in Connections |-> FALSE]

NextTxn ==
    \/ \E c \in Connections, readOnly \in BOOLEAN, fn \in TxnFns :
          TransactionWithOptions(c, readOnly, fn)
    \/ \E c \in Connections, id \in Ids : StoreCreateOn(c, id)
    \/ \E id \in Ids : SQLiteDynamicStore_Get("t", id)

SpecTxn == InitTxn /\ [][NextTxn]_vars

\* the rows of t after the Creates of writes all succeeded on tables
RECURSIVE WithWrites(_, _)
WithWrites(tables, writes) ==
    IF writes = <<>> THEN tables
    ELSE WithWrites(CreateOutcome(tables, "t", TxnData(Head(writes)), FALSE).tables,
                    Tail(writes))

\* C40: a transaction whose fn returned nil leaves all of fn's writes in the
\* database and one whose fn returned an error leaves none, and a Create
\* issued through the store afterwards succeeds exactly as it would have
\* before any transaction ran: it is refused only for an id already stored.
C40_TransactionScoped ==
    [][ /\ \A c \in Connections, readOnly \in BOOLEAN, fn \in TxnFns :
              TransactionWithOptions(c, readOnly, fn) =>
                  db' = IF ret'.val = "ok" THEN WithWrites(db, fn.writes) ELSE db
        /\ \A c \in Connections, id \in Ids :
              StoreCreateOn(c, id) =>
                  (ret'.val = "ok") = ~HasId(db["t"].rows, id)
      ]_vars

=============================================================================
